---- MODULE Spec2Model ----
(***************************************************************************)
(* Model of the server tick of veloren (server/src/lib.rs): connections,   *)
(* per-connection message handling, chunk generation, drain and eviction,  *)
(* replication to the clients, and of the combat system                    *)
(* (common/src/sys/combat.rs).                                             *)
(* One tick is the sequence of steps of Server::tick; the worker pool and  *)
(* the network (channel errors) act between any two steps.                 *)
(***************************************************************************)
EXTENDS Integers, Sequences, FiniteSets, TLC

(* ------------------------------ bounds --------------------------------- *)
\* number of entity handles ever created (one per accepted connection)
MaxEnt == 2
\* longest batch of messages one connection delivers in one pass
MaxBatch == 2
\* largest view distance a client sets
MaxVD == 1
\* no tick starts after this time (seconds)
MaxTime == 22
\* connections accepted where the session state machine is explored
SessionConns == 1
\* elapsed time of every tick where chunk streaming is explored (seconds)
TickDt == 10
\* entities the combat system runs on
MaxFighters == 3
\* health of an entity before the first hit
MaxHp == 20
MaxPushes == 2
MaxTicks == 3
MaxInputs == 1
MaxSpeed == 600
MaxAccel == 10000
MaxReach == 5000

(* -------------------------- program constants -------------------------- *)
CLIENT_TIMEOUT == 20
\* TerrainChunkSize::SIZE, horizontal edge of a chunk in voxels
ChunkSz == 32
\* SpawnPoint resource, horizontal coordinates
SpawnX == 16384
SpawnY == 16384
SpawnZ == 280
\* height a respawn adds to the position
RespawnLift == 100
\* TerrainChunkSize::SIZE, vertical extent of a chunk
ChunkSzZ == 2147483647
\* AnimationInfo::default().changed
DefaultAnimChanged == TRUE

\* elapsed times a tick is called with (seconds)
DtSet == {10, 11}

\* combat: stat_b.hp.change_by(-10, ..)
AttackDamage == 10
\* combat: distance_squared < 50.0
AttackRangeSq == 50
\* combat: attacking.time > 0.5, in tenths of a second
AttackWindow == 5
KnockbackSpeed == 10
KnockbackPop == 15
\* phys.rs:13-26; GRAV_ACCEL in 1/100, the friction constants and
\* GLIDE_ANTIGRAV in 1/1000
GRAV_ACCEL == 3924
FRIC_GROUND == 150
FRIC_AIR == 15
HUMANOID_ACCEL == 70
HUMANOID_SPEED == 120
HUMANOID_AIR_ACCEL == 10
HUMANOID_AIR_SPEED == 100
HUMANOID_JUMP_ACCEL == 16
ROLL_ACCEL == 160
ROLL_SPEED == 550
GLIDE_ACCEL == 15
GLIDE_SPEED == 45
GLIDE_ANTIGRAV == 38749
\* the duration of a roll in ms, the collision step in 1/20000 and the
\* iterations of the collision loop for each ms
ROLL_TIME == 550
COLLISION_STEP == 50
COLLISION_BUDGET == 6
\* combat: angle < 70 degrees, as cos^2(70 degrees) = 0.11698 = Num / Den
ConeCosSqNum == 11698
ConeCosSqDen == 100000
\* elapsed times the combat system is run with (tenths of a second)
CombatDts == {2, 3}

(* ------------------------------ options -------------------------------- *)
None == {}
Some(x) == {x}
IsSome(o) == o # {}
Unwrap(o) == CHOOSE x \in o : TRUE

(* ------------------------------ domains -------------------------------- *)
Ents == 1..MaxEnt
ClientStates == {"Pending", "Connected", "Registered", "Spectator", "Dead", "Character"}
VDSet == 0..MaxVD
VDOpt == {None} \cup {Some(v) : v \in VDSet}
SpawnPoint == [x |-> SpawnX, y |-> SpawnY, z |-> SpawnZ]
PosSet == {SpawnPoint, [x |-> SpawnX + 3 * ChunkSz + 5, y |-> SpawnY - 1, z |-> SpawnZ]}
Keys == {<<512, 512>>, <<514, 510>>}
ChatKinds == {"text", "long", "cmd"}

\* ClientMsg
Msgs ==
    {[type |-> "RequestState", state |-> s] : s \in ClientStates}
    \cup {[type |-> "Register", vd |-> v] : v \in VDOpt}
    \cup {[type |-> "SetViewDistance", vd |-> v] : v \in VDSet}
    \cup {[type |-> "Chat", kind |-> k] : k \in ChatKinds}
    \cup {[type |-> "PlayerPhysics", pos |-> p] : p \in PosSet}
    \cup {[type |-> "TerrainChunkRequest", key |-> k] : k \in Keys}
    \cup {[type |-> "PlayerAnimation", changed |-> b] : b \in BOOLEAN}
    \cup {[type |-> t] : t \in {"Character", "Attack", "Respawn", "Ping", "Pong",
                                "Disconnect"}}

NoMsg == [type |-> "none"]

(* ------------------------------- state --------------------------------- *)
VARIABLES
    pc,               \* step of Server::tick the tick loop is at
    time,             \* State::get_time()
    next_ent,         \* next entity handle create_entity_synced hands out
    ecs,              \* entity -> components (absent entity: NoEntity)
    clients,          \* Clients: entity -> Client, for connected entities
    sent,             \* entity -> server messages the last step put on its postbox
    todo,             \* clients remove_if has not visited yet in this pass
    cur,              \* the closure of remove_if: client, messages handled, flags
    new_chat_msgs,    \* handle_new_messages local
    disconnected_clients, \* handle_new_messages local
    requested_chunks, \* handle_new_messages local
    terrain,          \* keys of the chunks in the chunk map
    pending_chunks,   \* Server::pending_chunks
    jobs,             \* key -> jobs dispatched to the thread pool, not finished
    chunk_rx,         \* completion queue, oldest first
    drained,          \* the result the drain step of this tick took, if any
    cb,               \* the entities the combat system runs on, with their components
    ph,               \* the entity the physics system runs on, with its components
    lod               \* a position, its LodIndex and the position read back from it

vars == <<pc, time, next_ent, ecs, clients, sent, todo, cur, new_chat_msgs,
          disconnected_clients, requested_chunks, terrain, pending_chunks,
          jobs, chunk_rx, drained, cb, ph, lod>>

chunkVars == <<terrain, pending_chunks, jobs, chunk_rx>>
serverVars == <<pc, time, next_ent, ecs, clients, sent, todo, cur, new_chat_msgs,
                disconnected_clients, requested_chunks, terrain, pending_chunks,
                jobs, chunk_rx, drained>>
msgLocals == <<new_chat_msgs, disconnected_clients, requested_chunks>>

(* ------------------------------ entities ------------------------------- *)
\* an entity without components, as create_entity_synced().build() makes it
BareEntity ==
    [live |-> TRUE, player |-> None, actor |-> FALSE, stats |-> None,
     anim |-> FALSE, changed |-> FALSE, pos |-> None, vel |-> FALSE, ori |-> FALSE,
     force_update |-> FALSE, attacking |-> FALSE, dying |-> FALSE,
     respawning |-> FALSE]

NoEntity == [BareEntity EXCEPT !.live = FALSE]

\* comp::Stats::default()
DefaultStats == [is_dead |-> FALSE]

\* entities in join order (ascending index) that satisfy Test
JoinSeq(Test(_)) == SelectSeq([i \in 1..MaxEnt |-> i], Test)

(* ------------------------------- client -------------------------------- *)
NoCur == [ent |-> 0, n |-> 0, disconnect |-> FALSE, msg |-> NoMsg]

StateAnswerOk(s) == [type |-> "StateAnswer", ok |-> TRUE, state |-> s]
StateAnswerErr(err, s) == [type |-> "StateAnswer", ok |-> FALSE, err |-> err, state |-> s]

\* The closure of remove_if works on one client, the ecs and the three local
\* lists; a context record carries them through one message.
\*   c: the Client, out: messages sent on its postbox, ecs, chat, req, disconnect

\* Client::allow_state
allow_state(ctx, s) ==
    [ctx EXCEPT !.c.client_state = s, !.out = Append(@, StateAnswerOk(s))]

\* Client::error_state
error_state(ctx, err) ==
    [ctx EXCEPT !.out = Append(@, StateAnswerErr(err, ctx.c.client_state))]

\* PostBox::send_message on the client's own postbox
send_message(ctx, m) == [ctx EXCEPT !.out = Append(@, m)]

\* State::write_component
write_component(ctx, e, field, val) == [ctx EXCEPT !.ecs[e][field] = val]


(* --------------------------- message handlers -------------------------- *)
EntityPhysicsMsg(i) == [type |-> "EntityPhysics", entity |-> i]
EntityAnimationMsg(i) == [type |-> "EntityAnimation", entity |-> i]
TerrainChunkUpdateMsg(key) == [type |-> "TerrainChunkUpdate", key |-> key]
ChatMsg(from, kind) == [type |-> "Chat", from |-> from, kind |-> kind]

\* Server::initialize_player
initialize_player(ctx, e, vd) ==
    LET c1 == write_component(ctx, e, "player", Some([view_distance |-> vd]))
        HasPhys(i) == /\ c1.ecs[i].live /\ IsSome(c1.ecs[i].pos)
                      /\ c1.ecs[i].vel /\ c1.ecs[i].ori
        HasAnim(i) == c1.ecs[i].live /\ c1.ecs[i].anim
        phys == JoinSeq(HasPhys)
        anims == JoinSeq(HasAnim)
        c2 == [c1 EXCEPT !.out = @ \o [k \in 1..Len(phys) |-> EntityPhysicsMsg(phys[k])]
                                   \o [k \in 1..Len(anims) |-> EntityAnimationMsg(anims[k])]]
    IN  allow_state(c2, "Registered")

\* a character creation that grants the state before the entity has a body
create_player_character_bare(ctx, e) == allow_state(ctx, "Character")

\* Server::create_player_character
create_player_character(ctx, e) ==
    LET c1 == write_component(ctx, e, "actor", TRUE)
        c2 == write_component(c1, e, "stats", Some(DefaultStats))
        c3 == write_component(write_component(c2, e, "anim", TRUE),
                              e, "changed", DefaultAnimChanged)
        c4 == write_component(c3, e, "pos", Some(SpawnPoint))
        c5 == write_component(c4, e, "vel", TRUE)
        c6 == write_component(c5, e, "ori", TRUE)
        c7 == write_component(c6, e, "force_update", TRUE)
    IN  allow_state(c7, "Character")

\* a RequestState handler that grants whatever state is asked for
OnRequestState_grant(ctx, e, requested_state) == allow_state(ctx, requested_state)

\* ClientMsg::RequestState
OnRequestState(ctx, e, requested_state) ==
    CASE requested_state = "Connected" -> [ctx EXCEPT !.disconnect = TRUE]
      [] requested_state = "Registered" ->
            CASE ctx.c.client_state = "Connected" -> error_state(ctx, "WrongMessage")
              [] ctx.c.client_state = "Registered" -> error_state(ctx, "Already")
              [] ctx.c.client_state \in {"Spectator", "Character", "Dead"} ->
                    allow_state(ctx, "Registered")
              [] OTHER -> ctx
      [] requested_state = "Spectator" ->
            \* the inner match is again on requested_state (lib.rs:439)
            CASE requested_state = "Connected" -> error_state(ctx, "Impossible")
              [] requested_state = "Spectator" -> error_state(ctx, "Already")
              [] requested_state \in {"Registered", "Character", "Dead"} ->
                    allow_state(ctx, "Spectator")
              [] OTHER -> ctx
      [] requested_state = "Character" -> error_state(ctx, "WrongMessage")
      [] requested_state = "Dead" -> error_state(ctx, "Impossible")
      [] OTHER -> ctx

\* ClientMsg::Register
OnRegister(ctx, e, vd) ==
    IF ctx.c.client_state = "Connected"
    THEN LET c1 == initialize_player(ctx, e, vd)
         IN  IF IsSome(c1.ecs[e].player)
             THEN [c1 EXCEPT !.chat = Append(@, [from |-> None, kind |-> "login"])]
             ELSE c1
    ELSE error_state(ctx, "Impossible")

\* ClientMsg::SetViewDistance
OnSetViewDistance(ctx, e, vd) ==
    IF ctx.c.client_state = "Character" /\ IsSome(ctx.ecs[e].player)
    THEN write_component(ctx, e, "player", Some([view_distance |-> Some(vd)]))
    ELSE ctx

\* a Character handler without the test of the protocol state
OnCharacter_anystate(ctx, e) == create_player_character(ctx, e)

\* ClientMsg::Character
OnCharacter(ctx, e) ==
    CASE ctx.c.client_state = "Connected" -> error_state(ctx, "Impossible")
      [] ctx.c.client_state \in {"Registered", "Spectator", "Dead"} ->
            create_player_character(ctx, e)
      [] ctx.c.client_state = "Character" -> error_state(ctx, "Already")
      [] OTHER -> ctx

\* an Attack handler without the test of the protocol state
OnAttack_anystate(ctx, e) ==
    IF ~ctx.ecs[e].attacking THEN write_component(ctx, e, "attacking", TRUE) ELSE ctx

\* ClientMsg::Attack
OnAttack(ctx, e) ==
    IF ctx.c.client_state = "Character"
    THEN IF ~ctx.ecs[e].attacking
         THEN write_component(ctx, e, "attacking", TRUE)
         ELSE ctx
    ELSE error_state(ctx, "Impossible")

\* a Respawn handler that ends the connection of a session that is not dead
OnRespawn_kick(ctx, e) ==
    IF ctx.c.client_state = "Dead"
    THEN write_component(ctx, e, "respawning", TRUE)
    ELSE [error_state(ctx, "Impossible") EXCEPT !.disconnect = TRUE]

\* ClientMsg::Respawn
OnRespawn(ctx, e) ==
    IF ctx.c.client_state = "Dead"
    THEN write_component(ctx, e, "respawning", TRUE)
    ELSE error_state(ctx, "Impossible")

\* ClientMsg::Chat; "long" is a text of more than MAX_MSG_LEN bytes
OnChat(ctx, e, kind) ==
    CASE ctx.c.client_state = "Connected" -> error_state(ctx, "Impossible")
      [] ctx.c.client_state \in {"Registered", "Spectator", "Dead", "Character"} ->
            IF kind # "long"
            THEN [ctx EXCEPT !.chat = Append(@, [from |-> Some(e), kind |-> kind])]
            ELSE ctx
      [] OTHER -> ctx

\* ClientMsg::PlayerAnimation
OnPlayerAnimation(ctx, e, changed) ==
    IF ctx.c.client_state = "Character"
    THEN write_component(write_component(ctx, e, "anim", TRUE), e, "changed", changed)
    ELSE error_state(ctx, "Impossible")

\* ClientMsg::PlayerPhysics
OnPlayerPhysics(ctx, e, pos) ==
    IF ctx.c.client_state = "Character"
    THEN LET c1 == write_component(ctx, e, "pos", Some(pos))
             c2 == write_component(c1, e, "vel", TRUE)
         IN  write_component(c2, e, "ori", TRUE)
    ELSE error_state(ctx, "Impossible")

\* a handler that queues the key for generation whether or not the map has it
OnTerrainChunkRequest_always(ctx, e, key) ==
    CASE ctx.c.client_state \in {"Connected", "Registered", "Dead"} ->
            error_state(ctx, "Impossible")
      [] ctx.c.client_state \in {"Spectator", "Character"} ->
            [ctx EXCEPT !.req = Append(@, key)]
      [] OTHER -> ctx

\* ClientMsg::TerrainChunkRequest
OnTerrainChunkRequest(ctx, e, key) ==
    CASE ctx.c.client_state \in {"Connected", "Registered", "Dead"} ->
            error_state(ctx, "Impossible")
      [] ctx.c.client_state \in {"Spectator", "Character"} ->
            IF key \in terrain
            THEN send_message(ctx, TerrainChunkUpdateMsg(key))
            ELSE [ctx EXCEPT !.req = Append(@, key)]
      [] OTHER -> ctx

\* ClientMsg::Ping
OnPing(ctx, e) == send_message(ctx, [type |-> "Pong"])

\* ClientMsg::Pong
OnPong(ctx, e) == ctx

\* a Disconnect handler that forgets to set the flag
OnDisconnect_ignored(ctx, e) == ctx

\* ClientMsg::Disconnect
OnDisconnect(ctx, e) == [ctx EXCEPT !.disconnect = TRUE]

\* the match on msg in the closure of remove_if
Dispatch(ctx, e, m) ==
    CASE m.type = "RequestState" -> OnRequestState(ctx, e, m.state)
      [] m.type = "Register" -> OnRegister(ctx, e, m.vd)
      [] m.type = "SetViewDistance" -> OnSetViewDistance(ctx, e, m.vd)
      [] m.type = "Character" -> OnCharacter(ctx, e)
      [] m.type = "Attack" -> OnAttack(ctx, e)
      [] m.type = "Respawn" -> OnRespawn(ctx, e)
      [] m.type = "Chat" -> OnChat(ctx, e, m.kind)
      [] m.type = "PlayerAnimation" -> OnPlayerAnimation(ctx, e, m.changed)
      [] m.type = "PlayerPhysics" -> OnPlayerPhysics(ctx, e, m.pos)
      [] m.type = "TerrainChunkRequest" -> OnTerrainChunkRequest(ctx, e, m.key)
      [] m.type = "Ping" -> OnPing(ctx, e)
      [] m.type = "Pong" -> OnPong(ctx, e)
      [] m.type = "Disconnect" -> OnDisconnect(ctx, e)


(* ------------------------------- Clients ------------------------------- *)
\* no message sent
NoSent == [x \in Ents |-> <<>>]

\* Clients::notify_registered: every client past Connected gets the message
notify_registered(ob, cl, m) ==
    [e \in Ents |-> IF e \in DOMAIN cl /\ cl[e].client_state # "Connected"
                    THEN Append(ob[e], m) ELSE ob[e]]

\* Clients::notify: the client of that entity, if there is one
notify(ob, cl, e, m) ==
    [ob EXCEPT ![e] = IF e \in DOMAIN cl THEN Append(@, m) ELSE @]

\* Clients::remove_if, the removal of one entry
remove_client(cl, e) == [x \in DOMAIN cl \ {e} |-> cl[x]]

(* --------------------------- chunk generation -------------------------- *)
\* generate_chunk without the test of the pending set
generate_chunk_nodedup(gs, key) ==
    [pending |-> gs.pending \cup {key},
     jobs |-> [gs.jobs EXCEPT ![key] = @ + 1]]

\* Server::generate_chunk on gs = [pending, jobs]
generate_chunk(gs, key) ==
    IF key \notin gs.pending
    THEN [pending |-> gs.pending \cup {key},
          jobs |-> [gs.jobs EXCEPT ![key] = @ + 1]]
    ELSE gs

\* for key in requested_chunks { self.generate_chunk(key) }
RECURSIVE generate_all(_, _)
generate_all(gs, reqs) ==
    IF reqs = <<>> THEN gs
    ELSE generate_all(generate_chunk(gs, Head(reqs)), Tail(reqs))

\* VolMap2d::pos_key of a position cast to integers
pos_key(pos) == <<pos.x \div ChunkSz, pos.y \div ChunkSz>>

Abs(n) == IF n < 0 THEN -n ELSE n
reduce_max(a, b) == IF a >= b THEN a ELSE b

\* distance in chunks between the chunk of a position and a key (lib.rs:304-307, 336-339)
chunk_dist(pos, key) ==
    reduce_max(Abs(pos_key(pos)[1] - key[1]), Abs(pos_key(pos)[2] - key[2]))

(* -------------------------------- Init --------------------------------- *)
InitServer ==
    /\ pc = "idle"
    /\ time = 0
    /\ next_ent = 1
    /\ ecs = [e \in Ents |-> NoEntity]
    /\ clients = [e \in {} |-> 0]
    /\ sent = NoSent
    /\ todo = {}
    /\ cur = NoCur
    /\ new_chat_msgs = <<>>
    /\ disconnected_clients = <<>>
    /\ requested_chunks = <<>>
    /\ terrain = {}
    /\ pending_chunks = {}
    /\ jobs = [k \in Keys |-> 0]
    /\ chunk_rx = <<>>
    /\ drained = None

\* the state after Server::bind; the combat system is looked at on its own
Init == InitServer /\ cb = <<>> /\ ph = <<>> /\ lod = <<>>

(* ------------------------- handle_new_connections ---------------------- *)
NewClient == [client_state |-> "Connected", last_ping |-> time, error |-> FALSE]

\* Server::tick up to and including handle_new_connections, for n new postboxes
HandleNewConnections(n) ==
    /\ pc = "idle"
    /\ time <= MaxTime
    /\ next_ent + n <= MaxEnt + 1
    /\ LET new == next_ent..(next_ent + n - 1)
       IN  /\ ecs' = [e \in Ents |-> IF e \in new THEN BareEntity ELSE ecs[e]]
           /\ clients' = [e \in DOMAIN clients \cup new |->
                            IF e \in new THEN NewClient ELSE clients[e]]
           /\ sent' = [e \in Ents |-> IF e \in new
                                        THEN <<[type |-> "InitialSync", entity_uid |-> e]>>
                                        ELSE <<>>]
           /\ todo' = DOMAIN clients \cup new
    /\ next_ent' = next_ent + n
    /\ pc' = "msgs"
    /\ cur' = NoCur
    /\ new_chat_msgs' = <<>>
    /\ disconnected_clients' = <<>>
    /\ requested_chunks' = <<>>
    /\ drained' = None
    /\ UNCHANGED <<cb, ph, lod, time, chunkVars>>

(* --------------------------- handle_new_messages ----------------------- *)
\* remove_if calls the closure on the next client (map order is arbitrary)
VisitClient(e) ==
    /\ pc = "msgs"
    /\ e \in todo
    /\ todo' = todo \ {e}
    /\ cur' = [ent |-> e, n |-> 0, disconnect |-> FALSE, msg |-> NoMsg]
    /\ pc' = "batch"
    /\ sent' = NoSent
    /\ UNCHANGED <<cb, ph, lod, time, next_ent, ecs, clients, msgLocals, chunkVars, drained>>

\* a message loop in which the handlers work on a copy of the client
HandleMsg_lost(m) ==
    /\ pc = "batch"
    /\ cur.n < MaxBatch
    /\ LET e == cur.ent
           c0 == IF cur.n = 0 THEN [clients[e] EXCEPT !.last_ping = time] ELSE clients[e]
           ctx == [c |-> c0, out |-> <<>>, ecs |-> ecs, chat |-> new_chat_msgs,
                   req |-> requested_chunks, disconnect |-> cur.disconnect]
           r == Dispatch(ctx, e, m)
       IN  /\ clients' = [clients EXCEPT ![e] = c0]
           /\ sent' = [NoSent EXCEPT ![e] = r.out]
           /\ ecs' = r.ecs
           /\ new_chat_msgs' = r.chat
           /\ requested_chunks' = r.req
           /\ cur' = [cur EXCEPT !.n = @ + 1, !.disconnect = r.disconnect, !.msg = m]
    /\ UNCHANGED <<cb, ph, lod, pc, time, next_ent, todo, disconnected_clients, chunkVars, drained>>

\* a message loop that reads on but handles nothing once the session is
\* marked for removal
HandleMsg_break(m) ==
    /\ pc = "batch"
    /\ cur.n < MaxBatch
    /\ LET e == cur.ent
           c0 == IF cur.n = 0 THEN [clients[e] EXCEPT !.last_ping = time] ELSE clients[e]
           ctx == [c |-> c0, out |-> <<>>, ecs |-> ecs, chat |-> new_chat_msgs,
                   req |-> requested_chunks, disconnect |-> cur.disconnect]
           r == IF cur.disconnect THEN ctx ELSE Dispatch(ctx, e, m)
       IN  /\ clients' = [clients EXCEPT ![e] = r.c]
           /\ sent' = [NoSent EXCEPT ![e] = r.out]
           /\ ecs' = r.ecs
           /\ new_chat_msgs' = r.chat
           /\ requested_chunks' = r.req
           /\ cur' = [cur EXCEPT !.n = @ + 1, !.disconnect = r.disconnect, !.msg = m]
    /\ UNCHANGED <<cb, ph, lod, pc, time, next_ent, todo, disconnected_clients, chunkVars, drained>>

\* one iteration of `for msg in new_msgs`; the first one follows the update
\* of last_ping
HandleMsg(m) ==
    /\ pc = "batch"
    /\ cur.n < MaxBatch
    /\ LET e == cur.ent
           c0 == IF cur.n = 0 THEN [clients[e] EXCEPT !.last_ping = time] ELSE clients[e]
           ctx == [c |-> c0, out |-> <<>>, ecs |-> ecs, chat |-> new_chat_msgs,
                   req |-> requested_chunks, disconnect |-> cur.disconnect]
           r == Dispatch(ctx, e, m)
       IN  /\ clients' = [clients EXCEPT ![e] = r.c]
           /\ sent' = [NoSent EXCEPT ![e] = r.out]
           /\ ecs' = r.ecs
           /\ new_chat_msgs' = r.chat
           /\ requested_chunks' = r.req
           /\ cur' = [cur EXCEPT !.n = @ + 1, !.disconnect = r.disconnect, !.msg = m]
    /\ UNCHANGED <<cb, ph, lod, pc, time, next_ent, todo, disconnected_clients, chunkVars, drained>>

\* the end of the closure (lib.rs:585-594) with the given disconnect flag
CloseClient(disconnect) ==
    LET e == cur.ent
    IN  /\ IF disconnect
           THEN /\ new_chat_msgs' =
                      IF IsSome(ecs[e].player)
                      THEN Append(new_chat_msgs, [from |-> None, kind |-> "logout"])
                      ELSE new_chat_msgs
                /\ disconnected_clients' = Append(disconnected_clients, e)
                /\ clients' = remove_client(clients, e)
           ELSE /\ UNCHANGED <<new_chat_msgs, disconnected_clients, clients>>
        /\ pc' = "msgs"

\* the batch is over
EndBatch ==
    /\ pc = "batch"
    /\ cur.n > 0
    /\ CloseClient(cur.disconnect)
    /\ sent' = [NoSent EXCEPT ![cur.ent] =
                    IF cur.disconnect THEN <<[type |-> "Disconnect"]>> ELSE <<>>]
    /\ cur' = [cur EXCEPT !.msg = NoMsg]
    /\ UNCHANGED <<cb, ph, lod, time, next_ent, ecs, todo, requested_chunks, chunkVars, drained>>

\* new_messages() was empty: timeout, channel error or keep-alive (lib.rs:575-583)
silence(c) == time - c.last_ping

\* the time-out test with >= instead of >
timed_out_ge(c) == silence(c) >= CLIENT_TIMEOUT \/ c.error

timed_out(c) == silence(c) > CLIENT_TIMEOUT \/ c.error

wants_ping(c) == 2 * silence(c) > CLIENT_TIMEOUT

NoMessages ==
    /\ pc = "batch"
    /\ cur.n = 0
    /\ LET e == cur.ent
           c == clients[e]
           disconnect == timed_out(c)
           probe == ~disconnect /\ wants_ping(c)
       IN  /\ CloseClient(disconnect)
           /\ sent' = [NoSent EXCEPT ![e] =
                           IF disconnect THEN <<[type |-> "Disconnect"]>>
                           ELSE IF probe THEN <<[type |-> "Ping"]>>
                           ELSE <<>>]
           /\ cur' = [cur EXCEPT !.disconnect = disconnect]
    /\ UNCHANGED <<cb, ph, lod, time, next_ent, ecs, todo, requested_chunks, chunkVars, drained>>

\* for (entity, msg) in new_chat_msgs (lib.rs:597-616)
RECURSIVE send_chats(_, _, _)
send_chats(ob, cl, chats) ==
    IF chats = <<>> THEN ob
    ELSE LET ch == Head(chats)
             ob1 == IF IsSome(ch.from) /\ ch.kind = "cmd"
                    THEN notify(ob, cl, Unwrap(ch.from), ChatMsg(None, "unrecognised"))
                    ELSE notify_registered(ob, cl, ChatMsg(ch.from, ch.kind))
         IN  send_chats(ob1, cl, Tail(chats))

\* a pass that deletes no entity of a removed session
delete_entities_none(es, dead) == es

\* delete_entity_synced for every disconnected client (lib.rs:618-623)
delete_entities(es, dead) ==
    [e \in Ents |-> IF \E i \in 1..Len(dead) : dead[i] = e THEN NoEntity ELSE es[e]]

\* handle_new_messages after remove_if: chat, disconnects, chunk requests
AfterMessages ==
    /\ pc = "msgs"
    /\ todo = {}
    /\ sent' = send_chats(NoSent, clients, new_chat_msgs)
    /\ ecs' = delete_entities(ecs, disconnected_clients)
    /\ LET gs == generate_all([pending |-> pending_chunks, jobs |-> jobs], requested_chunks)
       IN  /\ pending_chunks' = gs.pending
           /\ jobs' = gs.jobs
    /\ pc' = "sim"
    /\ cur' = NoCur
    /\ new_chat_msgs' = <<>>
    /\ disconnected_clients' = <<>>
    /\ requested_chunks' = <<>>
    /\ UNCHANGED <<cb, ph, lod, time, next_ent, clients, todo, terrain, chunk_rx, drained>>


(* ------------------------------ State::tick ---------------------------- *)
\* entities the physics system integrates (phys.rs:115-129)
Movable(es) ==
    {e \in Ents : /\ es[e].live /\ IsSome(es[e].stats) /\ ~Unwrap(es[e].stats).is_dead
                  /\ IsSome(es[e].pos) /\ es[e].vel /\ es[e].ori}

\* entities whose health the simulation may bring to zero
Mortal(es) ==
    {e \in Ents : es[e].live /\ IsSome(es[e].stats) /\ ~Unwrap(es[e].stats).is_dead}

\* entities whose swing the combat system may end (combat.rs:39-74)
Swinging(es) ==
    {e \in Ents : es[e].live /\ es[e].attacking /\ IsSome(es[e].pos) /\ es[e].ori}

\* entities whose animation the systems may touch
Animated(es) == {e \in Ents : es[e].live /\ es[e].anim}

\* entities a swing of another entity may hit (combat.rs:44-52)
Hittable(es) == {b \in Movable(es) : \E a \in Swinging(es) : a # b}

\* self.state.tick(dt): time advances; the systems move entities to `moved`,
\* bring the health of `dies` to zero, end the swings of `ends`, leave the
\* changed flag of the animations of `anims` as given and mark the entities
\* of `hit` for a forced update
StateTick(dt, moved, dies, ends, anims, hit) ==
    /\ pc = "sim"
    /\ time' = time + dt
    /\ ecs' = [e \in Ents |->
                [ecs[e] EXCEPT
                    !.pos = IF e \in DOMAIN moved THEN Some(moved[e]) ELSE @,
                    !.changed = IF e \in DOMAIN anims THEN anims[e] ELSE @,
                    !.stats = IF e \in dies THEN Some([is_dead |-> TRUE]) ELSE @,
                    !.dying = IF e \in dies THEN TRUE ELSE @,
                    !.attacking = IF e \in ends THEN FALSE ELSE @,
                    !.force_update = IF e \in hit THEN TRUE ELSE @]]
    /\ pc' = "deaths"
    /\ sent' = NoSent
    /\ UNCHANGED <<cb, ph, lod, next_ent, clients, todo, cur, msgLocals, chunkVars, drained>>

(* ------------------------- deaths and respawns ------------------------- *)
\* a death sync that leaves the protocol state of the sessions alone
force_state_lost(c, s) == c

\* Client::force_state
force_state(c, s) == [c EXCEPT !.client_state = s]

\* Sync deaths and kill (lib.rs:222-264)
SyncDeaths ==
    /\ pc = "deaths"
    /\ LET todo_kill == {e \in Ents : ecs[e].live /\ ecs[e].dying}
           IsPlayer(i) == i \in todo_kill /\ IsSome(ecs[i].player)
           players == JoinSeq(IsPlayer)
           ob1 == send_chats(NoSent, clients,
                             [k \in 1..Len(players) |-> [from |-> None, kind |-> "death"]])
       IN  /\ ecs' = [e \in Ents |->
                        IF e \in todo_kill
                        THEN IF e \in DOMAIN clients
                             THEN [ecs[e] EXCEPT !.vel = TRUE, !.force_update = TRUE]
                             ELSE NoEntity
                        ELSE ecs[e]]
           /\ clients' = [e \in DOMAIN clients |->
                            IF e \in todo_kill THEN force_state(clients[e], "Dead")
                            ELSE clients[e]]
           /\ sent' = [e \in Ents |->
                            IF e \in todo_kill /\ e \in DOMAIN clients
                            THEN Append(ob1[e], [type |-> "ForceState", state |-> "Dead"])
                            ELSE ob1[e]]
    /\ pc' = "respawn"
    /\ UNCHANGED <<cb, ph, lod, time, next_ent, todo, cur, msgLocals, chunkVars, drained>>

\* a respawn step after which the tick goes on with the eviction
HandleRespawns_skipdrain ==
    /\ pc = "respawn"
    /\ pc' = "evict"
    /\ sent' = NoSent
    /\ UNCHANGED <<cb, ph, lod, time, next_ent, ecs, clients, todo, cur, msgLocals, chunkVars, drained>>

\* Handle respawns (lib.rs:266-288)
HandleRespawns ==
    /\ pc = "respawn"
    /\ LET todo_respawn == {e \in Ents : ecs[e].live /\ ecs[e].respawning
                                          /\ e \in DOMAIN clients}
       IN  /\ clients' = [e \in DOMAIN clients |->
                            IF e \in todo_respawn
                            THEN [clients[e] EXCEPT !.client_state = "Character"]
                            ELSE clients[e]]
           /\ sent' = [e \in Ents |->
                            IF e \in todo_respawn
                            THEN <<StateAnswerOk("Character")>>
                            ELSE <<>>]
           /\ ecs' = [e \in Ents |->
                        IF e \in todo_respawn
                        THEN [ecs[e] EXCEPT
                                !.stats = Some(DefaultStats),
                                !.pos = IF IsSome(@)
                                        THEN Some([Unwrap(@) EXCEPT !.z = @ + RespawnLift])
                                        ELSE @,
                                !.vel = TRUE,
                                !.force_update = TRUE]
                        ELSE ecs[e]]
    /\ pc' = "drain"
    /\ UNCHANGED <<cb, ph, lod, time, next_ent, todo, cur, msgLocals, chunkVars, drained>>

(* --------------------------- drain and evict --------------------------- *)
\* players the drain step and the eviction step look at: Player and Pos joined
Observers(es) == {e \in Ents : es[e].live /\ IsSome(es[e].player) /\ IsSome(es[e].pos)}

view_distance(es, e) == Unwrap(es[e].player).view_distance

\* the comparison dist < view_distance instead of dist <= view_distance
covers_strict(es, e, key) ==
    /\ IsSome(Unwrap(es[e].player).view_distance)
    /\ chunk_dist(Unwrap(es[e].pos), key) < Unwrap(Unwrap(es[e].player).view_distance)

\* dist <= view_distance, false when no view distance is set
covers(es, e, key) ==
    /\ IsSome(view_distance(es, e))
    /\ chunk_dist(Unwrap(es[e].pos), key) <= Unwrap(view_distance(es, e))

\* a drain that empties the queue (while let instead of if let)
received_all(q) == q

\* a drain step that never looks at the completion queue
received_none(q) == <<>>

\* what the drain step takes off the completion queue: `if let Ok(..) =
\* self.chunk_rx.try_recv()` receives once, without blocking (lib.rs:292)
received(q) == IF q = <<>> THEN <<>> ELSE <<Head(q)>>

\* 5) Fetch any generated chunk and insert it into the terrain (lib.rs:290-322)
DrainChunk ==
    /\ pc = "drain"
    /\ LET got == received(chunk_rx)
           keys == {got[i] : i \in 1..Len(got)}
           Told(e) == [i \in 1..Len(got) |-> TerrainChunkUpdateMsg(got[i])]
           Near(e) == LET Covered(m) == covers(ecs, e, m.key)
                      IN  SelectSeq(Told(e), Covered)
       IN  /\ chunk_rx' = SubSeq(chunk_rx, Len(got) + 1, Len(chunk_rx))
           /\ sent' = [e \in Ents |->
                         IF e \in Observers(ecs) /\ e \in DOMAIN clients
                         THEN Near(e) ELSE <<>>]
           /\ terrain' = terrain \cup keys
           /\ pending_chunks' = pending_chunks \ keys
           /\ drained' = IF got = <<>> THEN None ELSE Some(got[Len(got)])
    /\ pc' = "evict"
    /\ UNCHANGED <<cb, ph, lod, time, next_ent, ecs, clients, todo, cur, msgLocals, jobs>>

\* should_drop of the eviction loop (lib.rs:327-345)
should_drop(es, key) == ~\E e \in Observers(es) : covers(es, e, key)

\* an eviction that also forgets the uncovered keys of the pending set
EvictChunksCancel ==
    /\ pc = "evict"
    /\ terrain' = {key \in terrain : ~should_drop(ecs, key)}
    /\ pending_chunks' = {key \in pending_chunks : ~should_drop(ecs, key)}
    /\ pc' = "sync"
    /\ sent' = NoSent
    /\ UNCHANGED <<cb, ph, lod, time, next_ent, ecs, clients, todo, cur, msgLocals,
                   jobs, chunk_rx, drained>>

\* Remove chunks that are too far from players (lib.rs:324-353)
EvictChunks ==
    /\ pc = "evict"
    /\ terrain' = {key \in terrain : ~should_drop(ecs, key)}
    /\ pc' = "sync"
    /\ sent' = NoSent
    /\ UNCHANGED <<cb, ph, lod, time, next_ent, ecs, clients, todo, cur, msgLocals,
                   pending_chunks, jobs, chunk_rx, drained>>

(* ------------------------- sync and cleanup ---------------------------- *)
\* clients the notify_ingame family of Clients reaches
is_ingame(c) == c.client_state \in {"Spectator", "Character", "Dead"}

\* Clients::notify_ingame
notify_ingame(ob, cl, m) ==
    [c \in Ents |-> IF c \in DOMAIN cl /\ is_ingame(cl[c]) THEN Append(ob[c], m) ELSE ob[c]]

\* Clients::notify_ingame_except
notify_ingame_except(ob, cl, except, m) ==
    [c \in Ents |-> IF c \in DOMAIN cl /\ is_ingame(cl[c]) /\ c # except
                    THEN Append(ob[c], m) ELSE ob[c]]

\* Clients::notify_ingame_if, for the set of entities the closure accepts
notify_ingame_if(ob, cl, m, ok) ==
    [c \in Ents |-> IF c \in DOMAIN cl /\ is_ingame(cl[c]) /\ c \in ok
                    THEN Append(ob[c], m) ELSE ob[c]]

\* Clients::notify_ingame_if_except
notify_ingame_if_except(ob, cl, except, m, ok) ==
    [c \in Ents |-> IF c \in DOMAIN cl /\ is_ingame(cl[c]) /\ c # except /\ c \in ok
                    THEN Append(ob[c], m) ELSE ob[c]]

\* (d.abs() as u32) < client_vd * sz as u32 (lib.rs:726), computed without
\* the product, which is below 2^32 for the view distances of the model:
\* a < v * s if and only if v > 0 and a div v < s
axis_in_vd(d, client_vd, sz) == client_vd > 0 /\ Abs(d) \div client_vd < sz

\* the comparison of one axis with <= instead of <
axis_in_vd_le(d, client_vd, sz) ==
    Abs(d) = 0 \/ (client_vd > 0 /\ (Abs(d) - 1) \div client_vd < sz)

\* the closure in_vd with <= instead of <
in_vd_le(es, pos, entity) ==
    IF es[entity].pos = None THEN FALSE
    ELSE IF es[entity].player = None \/ view_distance(es, entity) = None THEN FALSE
    ELSE LET client_pos == Unwrap(es[entity].pos)
             client_vd == Unwrap(view_distance(es, entity))
         IN  /\ axis_in_vd_le(pos.x - client_pos.x, client_vd, ChunkSz)
             /\ axis_in_vd_le(pos.y - client_pos.y, client_vd, ChunkSz)
             /\ axis_in_vd_le(pos.z - client_pos.z, client_vd, ChunkSzZ)

\* the closure in_vd of sync_clients for an entity at pos (lib.rs:709-729)
in_vd(es, pos, entity) ==
    IF es[entity].pos = None THEN FALSE
    ELSE IF es[entity].player = None \/ view_distance(es, entity) = None THEN FALSE
    ELSE LET client_pos == Unwrap(es[entity].pos)
             client_vd == Unwrap(view_distance(es, entity))
         IN  /\ axis_in_vd(pos.x - client_pos.x, client_vd, ChunkSz)
             /\ axis_in_vd(pos.y - client_pos.y, client_vd, ChunkSz)
             /\ axis_in_vd(pos.z - client_pos.z, client_vd, ChunkSzZ)

\* Sync physics (lib.rs:685-735), entities i..MaxEnt in join order
RECURSIVE sync_physics(_, _, _, _)
sync_physics(ob, cl, es, i) ==
    IF i > MaxEnt THEN ob
    ELSE LET joined == es[i].live /\ IsSome(es[i].pos) /\ es[i].vel /\ es[i].ori
             msg == EntityPhysicsMsg(i)
             ok == {c \in Ents : in_vd(es, Unwrap(es[i].pos), c)}
             ob1 == IF ~joined THEN ob
                    ELSE IF es[i].force_update
                         THEN notify_ingame_if(ob, cl, msg, ok)
                         ELSE notify_ingame_if_except(ob, cl, i, msg, ok)
         IN  sync_physics(ob1, cl, es, i + 1)

\* Sync animations (lib.rs:737-759), entities i..MaxEnt in join order
RECURSIVE sync_animations(_, _, _, _)
sync_animations(ob, cl, es, i) ==
    IF i > MaxEnt THEN ob
    ELSE LET joined == es[i].live /\ es[i].anim
             msg == EntityAnimationMsg(i)
             ob1 == IF joined /\ (es[i].changed \/ es[i].force_update)
                    THEN IF es[i].force_update
                         THEN notify_ingame(ob, cl, msg)
                         ELSE notify_ingame_except(ob, cl, i, msg)
                    ELSE ob
         IN  sync_animations(ob1, cl, es, i + 1)

\* a replication that leaves the ForceUpdate markers in place
sync_clients_keep_markers(cl, es) ==
    LET ob1 == notify_registered(NoSent, cl, [type |-> "EcsSync"])
        ob2 == sync_physics(ob1, cl, es, 1)
    IN  [sent |-> sync_animations(ob2, cl, es, 1), ecs |-> es]

\* Server::sync_clients (lib.rs:680-766): what it sends and the entities it
\* leaves
sync_clients(cl, es) ==
    LET ob1 == notify_registered(NoSent, cl, [type |-> "EcsSync"])
        ob2 == sync_physics(ob1, cl, es, 1)
    IN  [sent |-> sync_animations(ob2, cl, es, 1),
         ecs |-> [e \in Ents |-> [es[e] EXCEPT !.force_update = FALSE]]]

\* 6) sync_clients (lib.rs:680-766): the sync package, physics, animations,
\* then the force flags are removed
SyncClients ==
    /\ pc = "sync"
    /\ sent' = sync_clients(clients, ecs).sent
    /\ ecs' = sync_clients(clients, ecs).ecs
    /\ pc' = "cleanup"
    /\ UNCHANGED <<cb, ph, lod, time, next_ent, clients, todo, cur, msgLocals, chunkVars, drained>>

\* a cleanup that removes Dying and forgets Respawning
Cleanup_keep ==
    /\ pc = "cleanup"
    /\ ecs' = [e \in Ents |-> [ecs[e] EXCEPT !.dying = FALSE]]
    /\ pc' = "idle"
    /\ sent' = NoSent
    /\ drained' = None
    /\ UNCHANGED <<cb, ph, lod, time, next_ent, clients, todo, cur, msgLocals, chunkVars>>

\* 7) Cleanup (lib.rs:360-367)
Cleanup ==
    /\ pc = "cleanup"
    /\ ecs' = [e \in Ents |-> [ecs[e] EXCEPT !.dying = FALSE, !.respawning = FALSE]]
    /\ pc' = "idle"
    /\ sent' = NoSent
    /\ drained' = None
    /\ UNCHANGED <<cb, ph, lod, time, next_ent, clients, todo, cur, msgLocals, chunkVars>>

(* ------------------------------ environment ---------------------------- *)
\* a worker finishes a job: chunk_tx.send((key, chunk)) (lib.rs:772-774)
WorkerFinish(key) ==
    /\ jobs[key] > 0
    /\ jobs' = [jobs EXCEPT ![key] = @ - 1]
    /\ chunk_rx' = Append(chunk_rx, key)
    /\ UNCHANGED <<cb, ph, lod, pc, time, next_ent, ecs, clients, sent, todo, cur, msgLocals,
                   terrain, pending_chunks, drained>>

\* the connection of a client breaks: its postbox reports an error from now on
ChannelError(e) ==
    /\ e \in DOMAIN clients
    /\ ~clients[e].error
    /\ clients' = [clients EXCEPT ![e].error = TRUE]
    /\ UNCHANGED <<cb, ph, lod, pc, time, next_ent, ecs, sent, todo, cur, msgLocals, chunkVars, drained>>

(* ----------------------------- specification --------------------------- *)
\* new_postboxes() yields n connections while at most cap were ever accepted
Accept(cap) ==
    \E n \in 0..cap : next_ent + n <= cap + 1 /\ HandleNewConnections(n)

\* the simulation step with every outcome of the systems
Simulate(dts) ==
    \E dt \in dts, mv \in SUBSET Movable(ecs), dies \in SUBSET Mortal(ecs),
       ends \in SUBSET Swinging(ecs), hit \in SUBSET Hittable(ecs) :
       \E moved \in [mv -> PosSet] : StateTick(dt, moved, dies, ends, <<>>, hit)

\* the simulation step in which nobody dies and no swing ends
SimulateMoves(dts) ==
    \E dt \in dts, mv \in SUBSET Movable(ecs) :
       \E moved \in [mv -> PosSet] : StateTick(dt, moved, {}, {}, <<>>, {})

\* every client message; an animation is sent with its changed flag set
SessionMsgs == {m \in Msgs : m.type = "PlayerAnimation" => m.changed}

\* One connection with every client message, time-outs, channel errors and
\* deaths: the session state machine.
Next ==
    \/ Accept(SessionConns)
    \/ \E e \in Ents : VisitClient(e)
    \/ \E m \in SessionMsgs : HandleMsg(m)
    \/ EndBatch
    \/ NoMessages
    \/ AfterMessages
    \/ Simulate(DtSet)
    \/ SyncDeaths
    \/ HandleRespawns
    \/ DrainChunk
    \/ EvictChunks
    \/ SyncClients
    \/ Cleanup
    \/ \E key \in Keys : WorkerFinish(key)
    \/ \E e \in Ents : ChannelError(e)

Spec == Init /\ [][Next]_vars

\* Server::create_npc(pos, ..).build() (lib.rs:144-161)
create_npc(pos) ==
    [BareEntity EXCEPT !.pos = Some(pos), !.vel = TRUE, !.ori = TRUE, !.anim = TRUE,
                       !.changed = DefaultAnimChanged, !.actor = TRUE,
                       !.stats = Some(DefaultStats), !.force_update = TRUE]

\* a chat message that starts with "/" names a known command whose handler
\* builds a non-player character (lib.rs:600-603, 788-789)
ChatCommand ==
    /\ pc = "msgs"
    /\ todo = {}
    /\ next_ent <= MaxEnt
    /\ \E i \in DOMAIN new_chat_msgs :
          /\ IsSome(new_chat_msgs[i].from)
          /\ new_chat_msgs[i].kind = "cmd"
          /\ new_chat_msgs' = SubSeq(new_chat_msgs, 1, i - 1)
                                  \o SubSeq(new_chat_msgs, i + 1, Len(new_chat_msgs))
    /\ ecs' = [ecs EXCEPT ![next_ent] = create_npc(SpawnPoint)]
    /\ next_ent' = next_ent + 1
    /\ sent' = NoSent
    /\ UNCHANGED <<cb, ph, lod, pc, time, clients, todo, cur, disconnected_clients,
                   requested_chunks, chunkVars, drained>>

\* One connection with every client message and a command that builds a
\* non-player character: entities with and without a session.
NextNpc ==
    \/ Next
    \/ ChatCommand

SpecNpc == Init /\ [][NextNpc]_vars

\* the messages that decide where players are and which chunks are asked for;
\* Pong stands for any message without effect
ChunkMsgs ==
    {m \in Msgs : m.type \in {"Register", "Character", "SetViewDistance", "PlayerPhysics",
                              "TerrainChunkRequest", "Pong", "Disconnect"}}

\* Several connections that send in every pass: chunk requests, generation,
\* drain and eviction.
NextChunks ==
    \/ Accept(MaxEnt)
    \/ \E e \in Ents : VisitClient(e)
    \/ \E m \in ChunkMsgs : HandleMsg(m)
    \/ EndBatch
    \/ AfterMessages
    \/ SimulateMoves({TickDt})
    \/ SyncDeaths
    \/ HandleRespawns
    \/ DrainChunk
    \/ EvictChunks
    \/ SyncClients
    \/ Cleanup
    \/ \E key \in Keys : WorkerFinish(key)

SpecChunks == Init /\ [][NextChunks]_vars

\* the messages that bring a session in game, move it and ask for chunks
StreamMsgs ==
    {m \in Msgs : m.type \in {"Register", "Character", "PlayerPhysics", "TerrainChunkRequest"}}

\* a step of Server::tick; the clock stands still (dt = 0), so that the tick
\* loop runs for ever within MaxTime: elapsed time plays no part in chunk
\* streaming
TickStep ==
    \/ Accept(SessionConns)
    \/ \E e \in Ents : VisitClient(e)
    \/ \E m \in StreamMsgs : HandleMsg(m)
    \/ EndBatch
    \/ AfterMessages
    \/ SimulateMoves({0})
    \/ SyncDeaths
    \/ HandleRespawns
    \/ DrainChunk
    \/ EvictChunks
    \/ SyncClients
    \/ Cleanup

NextStream ==
    \/ TickStep
    \/ \E key \in Keys : WorkerFinish(key)

\* The server ticks for as long as it runs (the caller's loop around
\* Server::tick) and a step of the tick is always possible, so weak fairness
\* of the tick is []<><<TickStep>>_vars; the thread pool runs every job it
\* was given (lib.rs:771-774): weak fairness of every worker.
SpecStream ==
    /\ Init
    /\ [][NextStream]_vars
    /\ []<><<TickStep>>_vars
    /\ \A key \in Keys : WF_vars(WorkerFinish(key))

\* the messages with which a session comes in game, talks, asks for chunks
\* and leaves
LeaveMsgs ==
    {m \in Msgs : \/ m.type \in {"Character", "Disconnect", "TerrainChunkRequest"}
                  \/ m.type = "Register" /\ m.vd = None
                  \/ m.type = "Chat" /\ m.kind = "text"
                  \/ m.type = "RequestState" /\ m.state = "Connected"}

\* the simulation step in which nothing moves and nobody dies
SimulateStill(dts) == \E dt \in dts : StateTick(dt, <<>>, {}, {}, <<>>, {})

\* Several connections that send in every pass: leaving in the middle of a
\* batch.
NextLeave ==
    \/ Accept(MaxEnt)
    \/ \E e \in Ents : VisitClient(e)
    \/ \E m \in LeaveMsgs : HandleMsg(m)
    \/ EndBatch
    \/ AfterMessages
    \/ SimulateStill({TickDt})
    \/ SyncDeaths
    \/ HandleRespawns
    \/ DrainChunk
    \/ EvictChunks
    \/ SyncClients
    \/ Cleanup
    \/ \E key \in Keys : WorkerFinish(key)

SpecLeave == Init /\ [][NextLeave]_vars

\* the messages that decide who is in game, where, with which view distance
\* and which animation, and who swings
SyncMsgs ==
    {m \in Msgs : m.type \in {"Register", "Character", "PlayerPhysics", "PlayerAnimation",
                              "Attack"}}

\* the simulation step in which the systems move entities, set or reset the
\* changed flag of animations, and resolve swings
SimulateAnims(dts) ==
    \E dt \in dts, mv \in SUBSET Movable(ecs), an \in SUBSET Animated(ecs),
       ends \in SUBSET Swinging(ecs), hit \in SUBSET Hittable(ecs) :
       \E moved \in [mv -> PosSet], anims \in [an -> BOOLEAN] :
          StateTick(dt, moved, {}, ends, anims, hit)

\* Several connections that send in every pass: replication to the clients.
NextSync ==
    \/ Accept(MaxEnt)
    \/ \E e \in Ents : VisitClient(e)
    \/ \E m \in SyncMsgs : HandleMsg(m)
    \/ EndBatch
    \/ AfterMessages
    \/ SimulateAnims({TickDt})
    \/ SyncDeaths
    \/ HandleRespawns
    \/ DrainChunk
    \/ EvictChunks
    \/ SyncClients
    \/ Cleanup

SpecSync == Init /\ [][NextSync]_vars


(* ------------------------------- combat -------------------------------- *)
Fighters == 1..MaxFighters
\* the fighters whose clients send Attack
Swingers == {1, 2}

\* where the second and the other fighters stand; the first stands at the origin
CombatPos ==
    {<<5, 0, 0>>, <<8, 0, 0>>, <<5, 5, 0>>, <<2, 5, 0>>, <<1, 3, 0>>, <<-5, 0, 0>>,
     <<0, 0, 0>>}

vec_sub(a, b) == <<a[1] - b[1], a[2] - b[2], a[3] - b[3]>>
vec_dot(a, b) == a[1] * b[1] + a[2] * b[2] + a[3] * b[3]
distance_squared(a, b) == vec_dot(vec_sub(a, b), vec_sub(a, b))

\* ori.angle_between(d).to_degrees() < 70.0: the angle is below 70 degrees
\* when its cosine is above cos(70 degrees); with a zero vector the angle is
\* NaN and the comparison false
angle_below_70(ori, d) ==
    LET n2 == vec_dot(ori, ori) * vec_dot(d, d)
        dt == vec_dot(ori, d)
    IN  n2 > 0 /\ dt > 0 /\ dt * dt * ConeCosSqDen > ConeCosSqNum * n2

\* Attacking::start()
AttackingStart == [time |-> 0, applied |-> FALSE]

\* Health::change_by
change_by(hp, amount) == IF hp + amount < 0 THEN 0 ELSE hp + amount

\* the targets of the scan: (&entities, &positions, &mut velocities, &mut stats).join()
Targets(w) == {b \in DOMAIN w : IsSome(w[b].vel) /\ IsSome(w[b].stats)}

\* a hit test that also takes the attacker
is_hit_self(w, a, b) ==
    /\ ~Unwrap(w[b].stats).is_dead
    /\ distance_squared(w[a].pos, w[b].pos) < AttackRangeSq
    /\ \/ a = b
       \/ angle_below_70(w[a].ori, vec_sub(w[b].pos, w[a].pos))

\* Check if it is a hit (combat.rs:48-51)
is_hit(w, a, b) ==
    /\ a # b
    /\ ~Unwrap(w[b].stats).is_dead
    /\ distance_squared(w[a].pos, w[b].pos) < AttackRangeSq
    /\ angle_below_70(w[a].ori, vec_sub(w[b].pos, w[a].pos))

\* (pos_b.0 - pos.0).normalized() * 10.0 is kept as the vector that is
\* normalized and the factor
knockback(pos, pos_b) == [away |-> vec_sub(pos_b, pos), times |-> KnockbackSpeed]

\* a velocity: linear is the sum of the vector `linear` and of the horizontal
\* components of the knockbacks added to it
Vel(linear) == [linear |-> linear, added |-> <<>>]

\* damage without the source, the push and the pop
deal_damage_plain(w, a, b) ==
    [w EXCEPT ![b].stats = Some([Unwrap(@) EXCEPT !.hp = change_by(@, -AttackDamage)]),
              ![b].force_update = TRUE]

\* Deal damage (combat.rs:53-57); the last change of the health is kept next
\* to the stats
deal_damage(w, a, b) ==
    [w EXCEPT ![b].stats = Some([Unwrap(@) EXCEPT !.hp = change_by(@, -AttackDamage)]),
              ![b].last_change =
                  Some([amount |-> -AttackDamage, cause |-> [Attack |-> [by |-> w[a].uid]]]),
              ![b].vel =
                  Some([linear |-> <<Unwrap(@).linear[1], Unwrap(@).linear[2], KnockbackPop>>,
                        added |-> Append(Unwrap(@).added, knockback(w[a].pos, w[b].pos))]),
              ![b].force_update = TRUE]

\* Go through all other entities (combat.rs:44-59), from entity b on
RECURSIVE hit_scan(_, _, _)
hit_scan(w, a, b) ==
    IF b > MaxFighters THEN w
    ELSE IF b \in Targets(w) /\ is_hit(w, a, b)
         THEN hit_scan(deal_damage(w, a, b), a, b + 1)
         ELSE hit_scan(w, a, b + 1)

\* a closure that scans whether or not the swing was applied
swing_rescan(r, a, dt) ==
    LET w1 == [hit_scan(r.w, a, 1) EXCEPT ![a].attacking = Some([Unwrap(@) EXCEPT !.applied = TRUE])]
    IN  IF Unwrap(w1[a].attacking).time > AttackWindow
        THEN [w |-> w1, over |-> r.over \cup {a}]
        ELSE [w |-> [w1 EXCEPT ![a].attacking = Some([Unwrap(@) EXCEPT !.time = @ + dt])],
              over |-> r.over]

\* the closure of filter_map for attacker a (combat.rs:41-69); r.over collects
\* the entities whose swing is over
swing(r, a, dt) ==
    LET w1 == IF ~Unwrap(r.w[a].attacking).applied
              THEN [hit_scan(r.w, a, 1) EXCEPT
                        ![a].attacking = Some([Unwrap(@) EXCEPT !.applied = TRUE])]
              ELSE r.w
    IN  IF Unwrap(w1[a].attacking).time > AttackWindow
        THEN [w |-> w1, over |-> r.over \cup {a}]
        ELSE [w |-> [w1 EXCEPT ![a].attacking = Some([Unwrap(@) EXCEPT !.time = @ + dt])],
              over |-> r.over]

\* the join over the entities with an Attacking marker, from entity a on
RECURSIVE swings(_, _, _)
swings(r, a, dt) ==
    IF a > MaxFighters THEN r
    ELSE IF IsSome(r.w[a].attacking)
         THEN swings(swing(r, a, dt), a + 1, dt)
         ELSE swings(r, a + 1, dt)

\* a run that leaves the markers of the swings that are over in place
combat_run_keep(w, dt) == swings([w |-> w, over |-> {}], 1, dt).w

\* combat::Sys::run: the swings, then attackings.remove(e) for those over
combat_run(w, dt) ==
    LET r == swings([w |-> w, over |-> {}], 1, dt)
    IN  [e \in DOMAIN w |-> IF e \in r.over THEN [r.w[e] EXCEPT !.attacking = None]
                                            ELSE r.w[e]]

\* the Uid of an entity is a number of its own, not the entity
uid_of(e) == 10 * e

Fighter(e, pos, ori, vel) ==
    [uid |-> uid_of(e), pos |-> pos, ori |-> ori, vel |-> vel,
     stats |-> Some([hp |-> MaxHp, is_dead |-> FALSE]), last_change |-> None,
     attacking |-> None, force_update |-> FALSE]

\* the number of knockbacks in the velocity of b
pushes(w, b) == IF IsSome(w[b].vel) THEN Len(Unwrap(w[b].vel).added) ELSE 0

\* the first fighter at the origin, facing along x or y; the others somewhere
\* around it, facing it from the x side; the last one with or without a velocity
InitCombat ==
    /\ InitServer
    /\ ph = <<>>
    /\ lod = <<>>
    /\ \E o1 \in {<<1, 0, 0>>, <<0, 1, 0>>}, v \in {None, Some(Vel(<<0, 0, 0>>))} :
       \E ps \in [2..MaxFighters -> CombatPos] :
          cb = [e \in Fighters |->
                  IF e = 1 THEN Fighter(e, <<0, 0, 0>>, o1, Some(Vel(<<0, 0, 0>>)))
                  ELSE Fighter(e, ps[e], <<-1, 0, 0>>,
                               IF e = MaxFighters THEN v ELSE Some(Vel(<<0, 0, 0>>)))]

\* an Attack that starts a swing whether or not one is under way
CombatAttack_restart(e) ==
    /\ e \in DOMAIN cb
    /\ ~Unwrap(cb[e].stats).is_dead
    /\ \A b \in DOMAIN cb : pushes(cb, b) < MaxPushes
    /\ cb' = [cb EXCEPT ![e].attacking = Some(AttackingStart)]
    /\ UNCHANGED <<serverVars, ph, lod>>

\* ClientMsg::Attack from a client in Character: the marker is inserted if
\* there is none (lib.rs:497-509)
CombatAttack(e) ==
    /\ e \in DOMAIN cb
    /\ ~Unwrap(cb[e].stats).is_dead
    /\ cb[e].attacking = None
    /\ \A b \in DOMAIN cb : pushes(cb, b) < MaxPushes
    /\ cb' = [cb EXCEPT ![e].attacking = Some(AttackingStart)]
    /\ UNCHANGED <<serverVars, ph, lod>>

\* one run of the combat system
CombatRun(dt) ==
    /\ cb' = combat_run(cb, dt)
    /\ UNCHANGED <<serverVars, ph, lod>>

\* the stats system marks an entity without health as dead
StatsDie(b) ==
    /\ b \in DOMAIN cb
    /\ IsSome(cb[b].stats)
    /\ Unwrap(cb[b].stats).hp = 0
    /\ ~Unwrap(cb[b].stats).is_dead
    /\ cb' = [cb EXCEPT ![b].stats = Some([Unwrap(@) EXCEPT !.is_dead = TRUE])]
    /\ UNCHANGED <<serverVars, ph, lod>>

\* Fighters that swing, the combat system and the stats system.
NextCombat ==
    \/ \E e \in Swingers : CombatAttack(e)
    \/ \E dt \in CombatDts : CombatRun(dt)
    \/ \E b \in Fighters : StatsDie(b)

SpecCombat == InitCombat /\ [][NextCombat]_vars

\* a swing is under way: the combat system has something to do
SwingPending == \E a \in DOMAIN cb : cb[a].attacking # None

\* The server ticks for as long as it runs (lib.rs:187-368) and every tick runs
\* the combat system: weak fairness of the run, WF_vars(CombatRun), written
\* with what ENABLED <<CombatRun>>_vars amounts to, a swing being under way.
SpecCombatFair ==
    /\ SpecCombat
    /\ \/ []<>(~SwingPending)
       \/ []<><<\E dt \in CombatDts : CombatRun(dt)>>_vars


(* ------------------------------- physics ------------------------------- *)
\* Numbers are integers: a velocity is in 1/1000 of a unit per second, an
\* acceleration in 1/100 of a unit per second squared, a position in 1/20000
\* of a unit (the collision step 0.0025 is 50) and a time in milliseconds.
\* Results that are no multiple of these are rounded towards zero. An f32 that
\* is not a number is the value NaN; infinite values are not modelled.
PhysDts == {200, 400}

\* f32::NAN, a value apart from every number the model computes with
NaN == 0 - 2000000000

\* a + b and a - b of f32: not a number as soon as one side is not
fadd(a, b) == IF a = NaN \/ b = NaN THEN NaN ELSE a + b
fsub(a, b) == IF a = NaN \/ b = NaN THEN NaN ELSE a - b

\* a < b, a > b and a <= b of f32: false as soon as one side is not a number
flt(a, b) == a # NaN /\ b # NaN /\ a < b
fgt(a, b) == a # NaN /\ b # NaN /\ a > b
fle(a, b) == a # NaN /\ b # NaN /\ a <= b

\* `e.floor() as i32` of a coordinate: of a NaN it is whatever the build makes
\* of the cast
floor_as_i32(p, e) == IF e = NaN THEN p.nan_as_i32 ELSE e \div 20000

\* the terrain is level ground up to height 0, or has no chunk at all
PhysTerrains == {"flat", "void"}

\* TerrainMap::get at a voxel: None where there is no sample
terrain_get(kind, cell) == IF kind = "void" THEN None ELSE Some([is_empty |-> cell[3] >= 0])

\* terrain.get(pos.map(|e| e.floor() as i32)).map(|vox| !vox.is_empty())
\*     .unwrap_or(false)
solid_at(p, pos) ==
    LET vox == terrain_get(p.terrain, [i \in 1..3 |-> floor_as_i32(p, pos[i])])
    IN  IsSome(vox) /\ ~Unwrap(vox).is_empty

\* the square of a number of thousandths: whole units and millionths
square(c) ==
    LET a == Abs(c) \div 1000
        b == Abs(c) % 1000
        low == 2 * a * b * 1000 + b * b
    IN  [whole |-> a * a + low \div 1000000, part |-> low % 1000000]

\* Vec3::magnitude_squared of a velocity, in whole units and millionths
magnitude_squared(v) ==
    LET x == square(v[1])
        y == square(v[2])
        z == square(v[3])
        part == x.part + y.part + z.part
    IN  IF \E i \in 1..3 : v[i] = NaN THEN [whole |-> NaN, part |-> 0]
        ELSE [whole |-> x.whole + y.whole + z.whole + part \div 1000000,
              part |-> part % 1000000]

\* v.magnitude() < cap, for a cap in whole units
magnitude_below(v, cap) == flt(magnitude_squared(v).whole, cap * cap)

\* an acceleration times a time is a velocity
accel_times(a, t) ==
    LET m == Abs(a)
        q == (m \div 100) * t + ((m % 100) * t) \div 100
    IN  IF a = NaN THEN NaN ELSE IF a < 0 THEN 0 - q ELSE q

\* a velocity times a time is a distance
vel_times(v, t) ==
    LET m == Abs(v)
        q == (m \div 50) * t + ((m % 50) * t) \div 50
    IN  IF v = NaN THEN NaN ELSE IF v < 0 THEN 0 - q ELSE q

\* the largest r in lo..hi-1 with r * r <= n
RECURSIVE sqrt_between(_, _, _)
sqrt_between(n, lo, hi) ==
    IF hi - lo <= 1 THEN lo
    ELSE LET mid == (lo + hi) \div 2
         IN  IF mid * mid <= n THEN sqrt_between(n, mid, hi) ELSE sqrt_between(n, lo, mid)

\* no gravity anywhere
get_grav_accel_none(on_ground) == 0

\* Gets the appropriate gravitational acceleration.
get_grav_accel(on_ground) == IF on_ground THEN 0 ELSE 0 - GRAV_ACCEL

\* Gets the appropriate friction factor, in thousandths
get_friction_factor(on_ground) == 50 * (IF on_ground THEN FRIC_GROUND ELSE FRIC_AIR)

\* Handles gravity, ground friction, air resistance, etc. (phys.rs:50-62)
resolve_forces(lin_vel, on_ground) ==
    LET \* 0.5 * get_friction_factor(on_ground) * speed_squared
        half(tenth, speed_squared) ==
            IF speed_squared.whole = NaN THEN NaN
            ELSE (tenth * speed_squared.whole + (tenth * speed_squared.part) \div 1000000) \div 2
        \* Acceleration::new(1.0, 1.0, 0.0) * k, and 0.0 * NaN is NaN
        friction(k) == IF on_ground THEN <<k, k, IF k = NaN THEN NaN ELSE 0>> ELSE <<k, k, k>>
        \* gravity - friction
        minus(f) == <<fsub(0, f[1]), fsub(0, f[2]), fsub(get_grav_accel(on_ground), f[3])>>
    IN  minus(friction(half(get_friction_factor(on_ground) \div 10, magnitude_squared(lin_vel))))

\* the match without its guards
drive_accel_uncapped(on_ground, gliding, rolling, linear) ==
    CASE on_ground /\ ~gliding /\ ~rolling -> HUMANOID_ACCEL
      [] ~on_ground /\ gliding /\ ~rolling -> GLIDE_ACCEL
      [] ~on_ground /\ ~gliding /\ ~rolling -> HUMANOID_AIR_ACCEL
      [] on_ground /\ ~gliding /\ rolling -> ROLL_ACCEL
      [] OTHER -> 0

\* the match of phys.rs:137-148
drive_accel(on_ground, gliding, rolling, linear) ==
    CASE on_ground /\ ~gliding /\ ~rolling /\ magnitude_below(linear, HUMANOID_SPEED) ->
            HUMANOID_ACCEL
      [] ~on_ground /\ gliding /\ ~rolling /\ magnitude_below(linear, GLIDE_SPEED) ->
            GLIDE_ACCEL
      [] ~on_ground /\ ~gliding /\ ~rolling /\ magnitude_below(linear, HUMANOID_AIR_SPEED) ->
            HUMANOID_AIR_ACCEL
      [] on_ground /\ ~gliding /\ rolling /\ magnitude_below(linear, ROLL_SPEED) ->
            ROLL_ACCEL
      [] OTHER -> 0

\* Move player according to move_dir (phys.rs:133-149)
apply_move(p, dt, on_ground) ==
    IF IsSome(p.move_dir)
    THEN LET a == drive_accel(on_ground, p.gliding, IsSome(p.rolling), p.vel.linear)
             d == Unwrap(p.move_dir)
         IN  [p EXCEPT !.vel.linear =
                 <<fadd(@[1], dt * d[1] * a), fadd(@[2], dt * d[2] * a), fadd(@[3], 0)>>]
    ELSE p

\* Jump (phys.rs:151-155)
apply_jump(p) ==
    IF p.jumping
    THEN [p EXCEPT !.vel.linear = <<@[1], @[2], 1000 * HUMANOID_JUMP_ACCEL>>,
                   !.jumping = FALSE]
    ELSE p

\* Glide (phys.rs:157-162)
apply_glide(p, dt) ==
    LET v == p.vel.linear
    IN  IF p.gliding /\ magnitude_below(v, GLIDE_SPEED) /\ flt(v[3], 0)
        THEN LET lift == GLIDE_ANTIGRAV + (v[3] * v[3]) \div 5000
                 len == sqrt_between(v[1] * v[1] + v[2] * v[2], 0, 1000 * GLIDE_SPEED)
                 \* Vec2::from(vel.linear * 0.15).magnitude().min(1.0), in thousandths
                 part == IF (150 * len) \div 1000 < 1000 THEN (150 * len) \div 1000 ELSE 1000
             IN  [p EXCEPT !.vel.linear[3] = @ + (((lift * dt) \div 1000) * part) \div 1000]
        ELSE p

\* a roll timer that is compared before dt is added
apply_roll_late(p, dt) ==
    IF IsSome(p.rolling)
    THEN IF Unwrap(p.rolling) > ROLL_TIME THEN [p EXCEPT !.rolling = None]
         ELSE [p EXCEPT !.rolling = Some(Unwrap(p.rolling) + dt)]
    ELSE p

\* Roll (phys.rs:164-170)
apply_roll(p, dt) ==
    IF IsSome(p.rolling)
    THEN LET t == Unwrap(p.rolling) + dt
         IN  IF t > ROLL_TIME THEN [p EXCEPT !.rolling = None]
             ELSE [p EXCEPT !.rolling = Some(t)]
    ELSE p

\* the clamp of phys.rs:200-204
clamp_z(z) ==
    IF fgt(z, 1000 * HUMANOID_AIR_SPEED) THEN 1000 * HUMANOID_AIR_SPEED
    ELSE IF flt(z, 0 - 1000 * HUMANOID_AIR_SPEED) THEN 0 - 1000 * HUMANOID_AIR_SPEED
    ELSE z

\* Velocity Verlet (phys.rs:172-206)
verlet(p, dt, on_ground) ==
    LET half_dt == dt \div 2
        half_step_vel ==
            [i \in 1..3 |-> fadd(p.vel.linear[i], accel_times(p.vel.accel[i], half_dt))]
        new_accel == resolve_forces(p.vel.linear, on_ground)
        linear ==
            [i \in 1..3 |->
                fadd(half_step_vel[i], accel_times(fadd(p.vel.accel[i], new_accel[i]), half_dt))]
    IN  [p EXCEPT !.pos = [i \in 1..3 |-> fadd(@[i], vel_times(half_step_vel[i], dt))],
                  !.vel = [linear |-> <<linear[1], linear[2], clamp_z(linear[3])>>,
                           accel |-> new_accel]]

\* vel.linear.normalized() * Vec3::new(1.0, 1.0, 0.0), kept as the vector that
\* is normalized
facing(v) == [unit_of |-> v, times |-> <<1, 1, 0>>]

\* Set orientation based on velocity (phys.rs:209-212)
set_orientation(p) ==
    IF p.vel.linear # <<0, 0, 0>> THEN [p EXCEPT !.ori = facing(p.vel.linear)] ELSE p

\* Update OnGround component (phys.rs:214-224); 0.1 is 2000
update_on_ground(p) ==
    [p EXCEPT !.on_ground =
        /\ solid_at(p, <<p.pos[1], p.pos[2], fsub(p.pos[3], 2000)>>)
        /\ fle(p.vel.linear[3], 0)]

\* a loop that goes on until the entity is out of the ground
RECURSIVE collide_unbounded(_, _, _)
collide_unbounded(p, i, budget) ==
    IF solid_at(p, p.pos) /\ p.pos[3] # NaN
    THEN LET top == (p.pos[3] \div 20000 + 1) * 20000
             n == (top - p.pos[3] + COLLISION_STEP - 1) \div COLLISION_STEP
         IN  collide_unbounded([p EXCEPT !.pos[3] = @ + n * COLLISION_STEP,
                                         !.vel.linear[3] = 0, !.i = i + n],
                               i + n, budget)
    ELSE p

\* Basic collision with terrain (phys.rs:226-237), from iteration i on; the
\* iterations that stay in one voxel are taken together, and a height that is
\* not a number stays in its voxel. The field i is the loop's counter.
RECURSIVE collide(_, _, _)
collide(p, i, budget) ==
    IF solid_at(p, p.pos) /\ i < budget
    THEN LET top == (p.pos[3] \div 20000 + 1) * 20000
             need == (top - p.pos[3] + COLLISION_STEP - 1) \div COLLISION_STEP
             n == IF p.pos[3] # NaN /\ need < budget - i THEN need ELSE budget - i
         IN  collide([p EXCEPT !.pos[3] = fadd(@, n * COLLISION_STEP), !.vel.linear[3] = 0,
                               !.i = i + n],
                     i + n, budget)
    ELSE p

\* the body of the loop of phys.rs:115-238 for one entity
integrate(p, dt) ==
    LET on_ground == p.on_ground
        p1 == apply_move(p, dt, on_ground)
        p2 == apply_jump(p1)
        p3 == apply_glide(p2, dt)
        p4 == apply_roll(p3, dt)
        p5 == verlet(p4, dt, on_ground)
        p6 == set_orientation(p5)
        p7 == update_on_ground(p6)
    IN  collide([p7 EXCEPT !.i = 0], 0, COLLISION_BUDGET * dt)

\* a system that also moves the dead
phys_step_all(p, dt) == integrate(p, dt)

\* Disable while dead (phys.rs:126-129)
phys_step(p, dt) == IF p.is_dead THEN p ELSE integrate(p, dt)

\* the numbers the model can compute with
Representable(p) ==
    \A i \in 1..3 :
       /\ p.vel.linear[i] = NaN \/ Abs(p.vel.linear[i]) <= 1000 * MaxSpeed
       /\ p.vel.accel[i] = NaN \/ Abs(p.vel.accel[i]) <= 100 * MaxAccel
       /\ p.pos[i] = NaN \/ Abs(p.pos[i]) <= 20000 * MaxReach

\* Vel(Vec3::zero()): no velocity and no cached acceleration
ZeroVel == [linear |-> <<0, 0, 0>>, accel |-> <<0, 0, 0>>]

\* an entity with the components of a character; dt is the DeltaTime of the
\* last run, nan_as_i32 what the build makes of `NaN as i32`
Body(kind, pos, vel, ori) ==
    [terrain |-> kind, nan_as_i32 |-> 0, is_dead |-> FALSE, move_dir |-> None, gliding |-> FALSE,
     jumping |-> FALSE, rolling |-> None, on_ground |-> FALSE,
     pos |-> pos, vel |-> vel, ori |-> ori, i |-> 0, dt |-> 0, ticks |-> 0, inputs |-> 0]

\* create_player_character (lib.rs:163-183): Pos(spawn_point), Vel(Vec3::zero()),
\* Ori(Vec3::unit_y()); the spawn point is 5 units above the ground here
InitPhys ==
    /\ InitServer
    /\ cb = <<>>
    /\ lod = <<>>
    /\ \E t \in PhysTerrains, c \in {-1, 0} :
          ph = [Body(t, <<0, 0, 100000>>, ZeroVel, facing(<<0, 1, 0>>)) EXCEPT !.nan_as_i32 = c]

\* one run of the physics system
PhysRun(dt) ==
    /\ ph.ticks < MaxTicks
    /\ Representable(ph)
    /\ ph' = [phys_step(ph, dt) EXCEPT !.dt = dt, !.ticks = @ + 1, !.inputs = 0]
    /\ UNCHANGED <<serverVars, cb, lod>>

\* something writes the components of the entity between two runs
PhysWrite(p) ==
    /\ ph.inputs < MaxInputs
    /\ ph' = [p EXCEPT !.inputs = @ + 1]
    /\ UNCHANGED <<serverVars, cb, lod>>

\* the controller of the entity sets or removes MoveDir
SetMoveDir(d) == PhysWrite([ph EXCEPT !.move_dir = d])
\* the controller asks for a jump
SetJumping == PhysWrite([ph EXCEPT !.jumping = TRUE])
\* the controller starts or stops gliding
SetGliding(g) == PhysWrite([ph EXCEPT !.gliding = g])
\* the controller asks for a roll: a roll starts only when there is none
SetRolling == PhysWrite(IF IsSome(ph.rolling) THEN ph ELSE [ph EXCEPT !.rolling = Some(0)])

\* what a client reports as its velocity, with the acceleration in it
ReportedVels ==
    {[linear |-> <<3000, 4000, 0>>, accel |-> <<0, 0, 0>>],
     [linear |-> <<0, 0, 150000>>, accel |-> <<0, 0, 100 * MaxAccel>>],
     [linear |-> <<0, 0, -150000>>, accel |-> <<0, 0, 0 - 100 * MaxAccel>>],
     [linear |-> <<0, 0, NaN>>, accel |-> <<0, 0, 0>>]}

\* ClientMsg::PlayerPhysics from a client in Character (lib.rs:539-547): pos,
\* vel and ori are written as they came
PlayerPhysics(pos, vel, ori) ==
    /\ ~ph.is_dead
    /\ PhysWrite([ph EXCEPT !.pos = pos, !.vel = vel, !.ori = ori])

\* the stats system finds the entity without health
PhysDie ==
    /\ ~ph.is_dead
    /\ PhysWrite([ph EXCEPT !.is_dead = TRUE])

\* Actually kill them (lib.rs:253-258)
PhysSyncDeath ==
    /\ ph.is_dead
    /\ PhysWrite([ph EXCEPT !.vel = ZeroVel])

\* Handle respawns (lib.rs:275-287): Stats::default(), pos.z += 100.0,
\* Vel(Vec3::zero())
PhysRespawn ==
    /\ ph.is_dead
    /\ PhysWrite([ph EXCEPT !.is_dead = FALSE, !.pos[3] = fadd(@, 20000 * RespawnLift),
                            !.vel = ZeroVel])

\* a hit by an attacker one unit away on the x axis (combat.rs:55-56)
PhysKnockback(side) ==
    /\ ~ph.is_dead
    /\ PhysWrite([ph EXCEPT !.vel.linear =
                     <<fadd(@[1], side * 1000 * KnockbackSpeed), @[2], 1000 * KnockbackPop>>])

\* A character, its controller, its client, the combat, stats and physics
\* systems and the death and respawn steps of the server.
NextPhys ==
    \/ \E dt \in PhysDts : PhysRun(dt)
    \/ \E d \in {None, Some(<<1, 0>>), Some(<<0, -1>>)} : SetMoveDir(d)
    \/ SetJumping
    \/ \E g \in BOOLEAN : SetGliding(g)
    \/ SetRolling
    \/ \E v \in ReportedVels :
          PlayerPhysics(<<0, 0, -6000>>, v, facing(<<1, 0, 0>>))
    \/ PhysDie
    \/ PhysSyncDeath
    \/ PhysRespawn
    \/ \E side \in {-1, 1} : PhysKnockback(side)

SpecPhys == InitPhys /\ [][NextPhys]_vars

\* the velocities, cached accelerations and heights one step is tried on
StepVels ==
    {<<0, 0, 0>>, <<44000, 0, 0>>, <<45000, 0, 0>>, <<99000, 0, 0>>, <<100000, 0, 0>>,
     <<119000, 0, 0>>, <<120000, 0, 0>>, <<549000, 0, 0>>, <<550000, 0, 0>>,
     <<0, 0, -5000>>, <<3000, 4000, -5000>>, <<0, 0, 150000>>, <<0, 0, -150000>>,
     <<0, 0, -99000>>}
StepAccels == {<<0, 0, 0>>, <<0, 0, 0 - GRAV_ACCEL>>, <<0, 0, 100 * MaxAccel>>}
StepHeights == {-100000, -6000, 1000, 100000}

\* one entity with any of these components
InitStep ==
    /\ InitServer
    /\ cb = <<>>
    /\ lod = <<>>
    /\ \E t \in PhysTerrains, h \in StepHeights, v \in StepVels, a \in StepAccels,
          og \in BOOLEAN, gl \in BOOLEAN, dead \in BOOLEAN, jp \in BOOLEAN,
          r \in {None, Some(0), Some(400)}, d \in {None, Some(<<1, 0>>), Some(<<0, -1>>)} :
          ph = [Body(t, <<0, 0, h>>, [linear |-> v, accel |-> a], facing(<<0, 1, 0>>))
                  EXCEPT !.on_ground = og, !.gliding = gl, !.is_dead = dead, !.jumping = jp,
                         !.rolling = r, !.move_dir = d]

\* One run of the physics system on each of these entities.
NextStep == \E dt \in PhysDts : ph.ticks = 0 /\ PhysRun(dt)

SpecStep == InitStep /\ [][NextStep]_vars


(* ------------------------------ LodIndex ------------------------------- *)
\* index.rs:18-20: a position goes from -2048 to 2 * 2048 - 1/32
LodRegion == 2048
\* data of a LodIndex per unit of position (index.rs:49, 59)
LodScale == 32
\* what LodIndex::new adds (index.rs:49)
LodOffset == 65535
\* 2^32 / 32
U32Quotients == 134217728

\* the whole positions of the documented range
LodRange == (0 - LodRegion)..(2 * LodRegion - 1)
\* the second and third coordinate: the ends of the range and the origin
LodEnds == {0 - LodRegion, 0, 2 * LodRegion - 1}

\* A u32 is kept as the i32 that has the same 32 bits, so `as u32` and
\* `as i32` change nothing; x / 32 on a u32 is the quotient of the unsigned
\* value, which for a set top bit is that of the value plus 2^32.
u32_div(x, d) == IF x >= 0 THEN x \div d ELSE (x \div d) + U32Quotients

\* x - 2048 on a u32 below 2048: a build with overflow checks panics, one
\* without wraps around (and `as i32` then gives the negative number)
u32_sub(x, y, overflow_checks) ==
    IF x >= 0 /\ x < y /\ overflow_checks THEN None ELSE Some(x - y)

\* LodIndex::new (index.rs:46-50)
new(pos) == [data |-> [k \in 1..3 |-> pos[k] * LodScale + LodOffset]]

\* LodIndex::to_pos_i (index.rs:58); a panic of one coordinate is one of the call
to_pos_i(index, overflow_checks) ==
    LET out == [k \in 1..3 |->
                  u32_sub(u32_div(index.data[k], LodScale), LodRegion, overflow_checks)]
    IN  IF \E k \in 1..3 : out[k] = None
        THEN [panicked |-> TRUE, value |-> <<>>]
        ELSE [panicked |-> FALSE, value |-> [k \in 1..3 |-> Unwrap(out[k])]]

\* a position of the documented range and a build with or without overflow
\* checks
InitLod ==
    /\ InitServer
    /\ cb = <<>>
    /\ ph = <<>>
    /\ \E x \in LodRange, y \in LodEnds, z \in LodEnds, c \in BOOLEAN :
          lod = [pos |-> <<x, y, z>>, index |-> None, out |-> None, overflow_checks |-> c]

LodNew ==
    /\ lod.index = None
    /\ lod' = [lod EXCEPT !.index = Some(new(lod.pos))]
    /\ UNCHANGED <<serverVars, cb, ph>>

LodToPos ==
    /\ lod.index # None
    /\ lod.out = None
    /\ lod' = [lod EXCEPT !.out = Some(to_pos_i(Unwrap(lod.index), lod.overflow_checks))]
    /\ UNCHANGED <<serverVars, cb, ph>>

NextLod ==
    \/ LodNew
    \/ LodToPos

SpecLod == InitLod /\ [][NextLod]_vars

(* =============================== claims ================================ *)
\* steps of the tick loop, told apart by the step counter
DrainStep == pc = "drain" /\ pc' = "evict"
EvictStep == pc = "evict" /\ pc' = "sync"
AfterMessagesStep == pc = "msgs" /\ pc' = "sim"

\* jobs for key in the pool plus results for key waiting in the queue
InFlight(key) == jobs[key] + Cardinality({i \in DOMAIN chunk_rx : chunk_rx[i] = key})

Requested(key) == \E i \in DOMAIN requested_chunks : requested_chunks[i] = key

\* Chebyshev distance of two chunk coordinates
Chebyshev(a, b) ==
    LET dx == IF a[1] >= b[1] THEN a[1] - b[1] ELSE b[1] - a[1]
        dy == IF a[2] >= b[2] THEN a[2] - b[2] ELSE b[2] - a[2]
    IN  IF dx >= dy THEN dx ELSE dy

\* the chunk a position lies in
ChunkOf(p) == <<p.x \div ChunkSz, p.y \div ChunkSz>>

\* entity e is a player with a position and a view distance that reaches key
Sees(e, key) ==
    /\ ecs[e].live
    /\ ecs[e].player # None
    /\ ecs[e].pos # None
    /\ \E p \in ecs[e].pos, pl \in ecs[e].player :
          \E vd \in pl.view_distance : Chebyshev(ChunkOf(p), key) <= vd

HasObserver(key) == \E e \in Ents : Sees(e, key)

\* C1: at every moment each chunk key has at most one generation job in
\* flight, exactly one if and only if the key is in the pending set; the
\* requests of one pass dispatch one job for each requested key that was not
\* pending, however often the key was requested, and none for a pending key.
C1_OneJobPerKey ==
    /\ [](\A key \in Keys : InFlight(key) = IF key \in pending_chunks THEN 1 ELSE 0)
    /\ [][AfterMessagesStep =>
            \A key \in Keys :
               jobs'[key] - jobs[key] =
                  IF Requested(key) /\ key \notin pending_chunks THEN 1 ELSE 0]_vars

\* the same absent key was requested twice in one pass
C1_Witness ==
    /\ pc = "msgs" /\ todo = {}
    /\ \E i, j \in DOMAIN requested_chunks :
          /\ i # j
          /\ requested_chunks[i] = requested_chunks[j]
          /\ requested_chunks[i] \notin pending_chunks

C3_EvictIffUncovered ==
    [][EvictStep =>
         /\ terrain' \subseteq terrain
         /\ \A key \in terrain : key \in terrain' <=> HasObserver(key)]_vars

\* after eviction a chunk is kept that the second player covers and the
\* first player, who also has a position, does not
C3_Witness ==
    /\ pc = "sync"
    /\ \E key \in terrain : ~Sees(1, key) /\ Sees(2, key) /\ ecs[1].pos # None

\* C4 as claimed: eviction leaves the pending set and the jobs alone, and a
\* chunk drained in a tick is still in the map after the eviction of that tick.
C4_Original ==
    [][EvictStep =>
         /\ UNCHANGED <<pending_chunks, jobs, chunk_rx>>
         /\ \A key \in drained : key \in terrain']_vars

\* C4 amended: eviction leaves the pending set, the jobs and the queue alone;
\* a job leaves the pool only by putting its result on the queue; a drained
\* result is inserted; the eviction of the same tick keeps the chunk just
\* drained if and only if an observer covers it.
C4_NoCancelEvictSameTick ==
    [][/\ EvictStep =>
            /\ UNCHANGED <<pending_chunks, jobs, chunk_rx>>
            /\ \A key \in drained : key \in terrain' <=> HasObserver(key)
       /\ DrainStep /\ chunk_rx # <<>> => Head(chunk_rx) \in terrain'
       /\ \A key \in Keys :
            jobs'[key] < jobs[key] => chunk_rx' = Append(chunk_rx, key)]_vars

\* a chunk was drained and evicted in the same tick while another key is
\* still pending
C4_Witness ==
    /\ pc = "sync"
    /\ \E key \in drained : key \notin terrain
    /\ pending_chunks # {}


(* ------------------------- session state machine ----------------------- *)
\* the closure handles one message: cur'.msg, sent by the client of cur.ent
MsgStep == pc = "batch" /\ pc' = "batch" /\ cur'.n = cur.n + 1
\* the closure ends after a batch with messages, or after an empty one
EndBatchStep == pc = "batch" /\ pc' = "msgs" /\ cur.n > 0
NoMsgStep == pc = "batch" /\ pc' = "msgs" /\ cur.n = 0

\* protocol state of the session whose batch is being handled, before the step
St == clients[cur.ent].client_state
\* what the step sent to that session
Answer == sent'[cur.ent]
\* the session is still in the client table after the step, in the same state
SameState == cur.ent \in DOMAIN clients' /\ clients'[cur.ent].client_state = St
MovedTo(s) == cur.ent \in DOMAIN clients' /\ clients'[cur.ent].client_state = s
Removed == cur.ent \notin DOMAIN clients'

Rejection(err) == [type |-> "StateAnswer", ok |-> FALSE, err |-> err, state |-> St]
Accepted(s) == [type |-> "StateAnswer", ok |-> TRUE, state |-> s]
RejectedWith(errs) == \E err \in errs : Answer = <<Rejection(err)>>

\* C5: Character from a session in Connected is answered with Impossible,
\* leaves the session in Connected and changes no entity; Character from a
\* session in Registered moves it to Character and gives its entity Actor,
\* Stats, AnimationInfo, Pos, Vel, Ori and ForceUpdate.
C5_CharacterAfterRegister ==
    [][MsgStep /\ cur'.msg.type = "Character" =>
         /\ St = "Connected" =>
               /\ SameState
               /\ ecs' = ecs
               /\ RejectedWith({"Impossible"})
         /\ St = "Registered" =>
               /\ MovedTo("Character")
               /\ Answer = <<Accepted("Character")>>
               /\ LET ent == ecs'[cur.ent]
                  IN  /\ ent.actor /\ ent.stats # None /\ ent.anim /\ ent.pos # None
                      /\ ent.vel /\ ent.ori /\ ent.force_update]_vars

\* Register and Character came in one batch and the session is in Character
C5_Witness ==
    /\ pc = "batch" /\ cur.n = 2 /\ cur.msg.type = "Character"
    /\ clients[cur.ent].client_state = "Character"
    /\ clients[cur.ent].last_ping = 0
    /\ ecs[cur.ent].actor /\ ecs[cur.ent].force_update /\ ecs[cur.ent].player # None

\* the edges the claim lets RequestState use
ClaimedEdges == {<<"Registered", "Spectator">>, <<"Spectator", "Registered">>}
\* the edges RequestState uses
RequestEdges ==
    ClaimedEdges \cup {<<"Character", "Registered">>, <<"Dead", "Registered">>}

\* C6 as claimed: RequestState changes the state only along Registered ->
\* Spectator and Spectator -> Registered; every other pair leaves the state
\* unchanged and is answered with Already, Impossible or WrongMessage. (Read
\* for requests of Registered, Spectator, Character and Dead only.)
C6_Original ==
    [][(MsgStep /\ cur'.msg.type = "RequestState"
           /\ cur'.msg.state \notin {"Connected", "Pending"}) =>
         IF <<St, cur'.msg.state>> \in ClaimedEdges
         THEN SameState \/ MovedTo(cur'.msg.state)
         ELSE SameState /\ RejectedWith({"Already", "Impossible", "WrongMessage"})]_vars

\* C6 amended: RequestState changes the state only along Registered ->
\* Spectator, Spectator -> Registered, Character -> Registered and Dead ->
\* Registered; every other pair leaves the state unchanged and is answered with
\* Already, Impossible or WrongMessage, except RequestState(Connected), which
\* gets no answer and marks the session for disconnection, and
\* RequestState(Pending), which gets no answer.
C6_RequestStateEdges ==
    [][MsgStep /\ cur'.msg.type = "RequestState" =>
         LET req == cur'.msg.state
         IN  IF <<St, req>> \in RequestEdges
             THEN SameState \/ MovedTo(req)
             ELSE /\ SameState
                  /\ CASE req = "Connected" -> Answer = <<>> /\ cur'.disconnect
                       [] req = "Pending" -> Answer = <<>>
                       [] OTHER -> RejectedWith({"Already", "Impossible", "WrongMessage"})]_vars

\* a session in Dead asked for Registered and got it
C6_Witness ==
    /\ pc = "batch" /\ cur.msg = [type |-> "RequestState", state |-> "Registered"]
    /\ clients[cur.ent].client_state = "Registered"
    /\ sent[cur.ent] = <<Accepted("Registered")>>
    /\ \E st \in ecs[cur.ent].stats : st.is_dead

\* C7: RequestState(Spectator) moves a session in Registered to Spectator and
\* RequestState(Registered) moves a session in Spectator to Registered.
C7_SpectatorEdge ==
    [][MsgStep /\ cur'.msg.type = "RequestState" =>
         /\ St = "Registered" /\ cur'.msg.state = "Spectator" => MovedTo("Spectator")
         /\ St = "Spectator" /\ cur'.msg.state = "Registered" => MovedTo("Registered")]_vars

\* the protocol states that may send a message of the given kind
MaySend(type) ==
    CASE type = "Character" -> {"Registered", "Spectator", "Dead"}
      [] type \in {"Attack", "PlayerPhysics", "PlayerAnimation"} -> {"Character"}
      [] type = "Respawn" -> {"Dead"}
      [] type = "Chat" -> ClientStates \ {"Connected"}
      [] type = "TerrainChunkRequest" -> {"Spectator", "Character"}

Gated == {"Character", "Attack", "Respawn", "PlayerPhysics", "PlayerAnimation", "Chat",
          "TerrainChunkRequest"}

OutOfState == MsgStep /\ cur'.msg.type \in Gated /\ St \notin MaySend(cur'.msg.type)

Ignored ==
    /\ SameState
    /\ ecs' = ecs
    /\ new_chat_msgs' = new_chat_msgs
    /\ requested_chunks' = requested_chunks

\* C8 as claimed: a gated message received in a state that may not send it is
\* answered with Impossible and changes neither the protocol state nor any
\* entity, and adds no chat message and no chunk request.
C8_Original ==
    [][OutOfState => Ignored /\ RejectedWith({"Impossible"})]_vars

\* C8 amended: the same, except that a Character message received in state
\* Character is answered with Already instead of Impossible.
C8_OutOfStateRejected ==
    [][OutOfState =>
         /\ Ignored
         /\ IF cur'.msg.type = "Character" /\ St = "Character"
            THEN RejectedWith({"Already"})
            ELSE RejectedWith({"Impossible"})]_vars

\* a session in Character sent Character again and was answered with Already
C8_Witness ==
    /\ pc = "batch" /\ cur.msg.type = "Character"
    /\ sent[cur.ent] =
          <<[type |-> "StateAnswer", ok |-> FALSE, err |-> "Already", state |-> "Character"]>>

\* C9: Ping is answered with exactly one Pong and Pong with nothing, neither
\* changes the protocol state or an entity; Disconnect sets the disconnect flag
\* of the batch, no later message of the batch clears it, and a batch that ends
\* with the flag set removes the session, whatever its protocol state.
C9_PingPongDisconnect ==
    [][/\ MsgStep /\ cur'.msg.type = "Ping" =>
            Answer = <<[type |-> "Pong"]>> /\ SameState /\ ecs' = ecs
       /\ MsgStep /\ cur'.msg.type = "Pong" =>
            Answer = <<>> /\ SameState /\ ecs' = ecs
       /\ MsgStep /\ cur'.msg.type = "Disconnect" => cur'.disconnect
       /\ MsgStep /\ cur.disconnect => cur'.disconnect
       /\ EndBatchStep /\ cur.disconnect =>
            Removed /\ Answer = <<[type |-> "Disconnect"]>>]_vars

\* a dead session sent Disconnect
C9_Witness ==
    /\ pc = "batch" /\ cur.msg.type = "Disconnect" /\ cur.disconnect
    /\ clients[cur.ent].client_state = "Dead"

\* seconds since the last batch of the session being visited
Quiet == time - clients[cur.ent].last_ping

\* what C10 says of a batch with messages: the first message resets the timer,
\* and the session is removed only if a message of the batch asked for it
BatchKeepsAlive ==
    /\ MsgStep /\ cur.n = 0 => clients'[cur.ent].last_ping = time
    /\ MsgStep /\ cur'.disconnect /\ ~cur.disconnect =>
          \/ cur'.msg.type = "Disconnect"
          \/ cur'.msg = [type |-> "RequestState", state |-> "Connected"]
    /\ EndBatchStep /\ Removed => cur.disconnect

\* C10 as claimed: an empty batch after more than 20 s of silence removes the
\* session; after more than 10 s and at most 20 s it sends a Ping and keeps the
\* session; a batch with messages resets the timer and does not time out.
C10_Original ==
    [][/\ NoMsgStep /\ Quiet > 20 => Removed
       /\ NoMsgStep /\ Quiet > 10 /\ Quiet <= 20 =>
            ~Removed /\ Answer = <<[type |-> "Ping"]>>
       /\ BatchKeepsAlive]_vars

\* C10 amended: the Ping after more than 10 s and at most 20 s is sent, and the
\* session kept, when its channel reports no error.
C10_TimeoutAndProbe ==
    [][/\ NoMsgStep /\ Quiet > 20 => Removed
       /\ NoMsgStep /\ Quiet > 10 /\ Quiet <= 20 /\ ~clients[cur.ent].error =>
            ~Removed /\ Answer = <<[type |-> "Ping"]>>
       /\ BatchKeepsAlive]_vars

\* a session silent for exactly 20 s was probed and kept
C10_Witness ==
    /\ pc = "msgs" /\ cur.ent \in DOMAIN clients /\ cur.n = 0
    /\ time - clients[cur.ent].last_ping = 20
    /\ sent[cur.ent] = <<[type |-> "Ping"]>>

(* --------------------------- errors and order -------------------------- *)
\* C11: a pass in which the channel of a session reports an error removes the
\* session when its closure ends, whether the batch had messages or not.
C11_ErrorDisconnectsSamePass ==
    [][(EndBatchStep \/ NoMsgStep) /\ clients[cur.ent].error => Removed]_vars

\* a RequestState that is not an edge of the transition table, or a gated
\* message from a state that may not send it
Violation ==
    \/ OutOfState
    \/ /\ MsgStep /\ cur'.msg.type = "RequestState"
       /\ <<St, cur'.msg.state>> \notin RequestEdges

\* nobody else is sent anything by the step
OnlyToSender == \A o \in Ents \ {cur.ent} : sent'[o] = <<>>

\* the step leaves the session in the table, with its entity, and does not
\* ask for its removal
StaysConnected ==
    /\ cur.ent \in DOMAIN clients'
    /\ ecs'[cur.ent].live
    /\ cur'.disconnect = cur.disconnect

\* C12 as claimed: a protocol violation leaves the session connected, in its
\* state, with its entity, changes nothing else, and its only effect is one
\* typed rejection sent to that session alone; the end of a batch removes the
\* session only if a message asked for it.
C12_Original ==
    [][/\ Violation =>
            /\ StaysConnected /\ Ignored /\ OnlyToSender
            /\ RejectedWith({"Already", "Impossible", "WrongMessage"})
       /\ EndBatchStep /\ ~cur.disconnect => ~Removed /\ ecs' = ecs]_vars

\* C12 amended: the same, except that RequestState(Connected) is answered
\* with nothing and asks for the removal of the session, and
\* RequestState(Pending) is answered with nothing.
C12_ViolationKeepsSession ==
    [][/\ Violation =>
            /\ Ignored /\ OnlyToSender
            /\ cur.ent \in DOMAIN clients' /\ ecs'[cur.ent].live
            /\ CASE cur'.msg = [type |-> "RequestState", state |-> "Connected"] ->
                        Answer = <<>> /\ cur'.disconnect
                 [] cur'.msg = [type |-> "RequestState", state |-> "Pending"] ->
                        Answer = <<>> /\ cur'.disconnect = cur.disconnect
                 [] OTHER ->
                        /\ cur'.disconnect = cur.disconnect
                        /\ RejectedWith({"Already", "Impossible", "WrongMessage"})
       /\ EndBatchStep /\ ~cur.disconnect => ~Removed /\ ecs' = ecs]_vars

\* a session in Character asked for Dead as the second message of its batch,
\* was rejected and is not marked for removal
C12_Witness ==
    /\ pc = "batch" /\ cur.n = 2 /\ ~cur.disconnect
    /\ cur.msg = [type |-> "RequestState", state |-> "Dead"]
    /\ clients[cur.ent].client_state = "Character"
    /\ ecs[cur.ent].live
    /\ sent[cur.ent] =
          <<[type |-> "StateAnswer", ok |-> FALSE, err |-> "Impossible", state |-> "Character"]>>

\* no rejection among the messages
NoRejection(ms) == \A i \in DOMAIN ms : ms[i].type = "StateAnswer" => ms[i].ok

\* C13: the messages of a batch are handled one after the other, each on the
\* protocol state the previous one left: Register from Connected moves to
\* Registered without a rejection and a Character that follows it in the batch
\* moves to Character without a rejection; Character from Connected is
\* answered with one Impossible and leaves Connected, and a Register that
\* follows it in the batch moves to Registered without a rejection.
C13_ArrivalOrder ==
    [][MsgStep =>
         /\ (cur.n = 0 /\ St = "Connected" /\ cur'.msg.type = "Register") =>
                MovedTo("Registered") /\ NoRejection(Answer)
         /\ (cur.n = 1 /\ cur.msg.type = "Register" /\ St = "Registered"
                /\ cur'.msg.type = "Character") =>
                MovedTo("Character") /\ Answer = <<Accepted("Character")>>
         /\ (cur.n = 0 /\ St = "Connected" /\ cur'.msg.type = "Character") =>
                SameState /\ Answer = <<Rejection("Impossible")>>
         /\ (cur.n = 1 /\ cur.msg.type = "Character" /\ St = "Connected"
                /\ cur'.msg.type = "Register") =>
                MovedTo("Registered") /\ NoRejection(Answer)
         /\ clients'[cur.ent].last_ping = time]_vars

\* in the first tick a batch of Register with the largest view distance and
\* then Character was accepted
C13_Witness ==
    /\ pc = "batch" /\ time = 0 /\ cur.n = 2 /\ cur.msg.type = "Character"
    /\ clients[cur.ent].client_state = "Character"
    /\ sent[cur.ent] = <<Accepted("Character")>>
    /\ \E pl \in ecs[cur.ent].player : pl.view_distance = Some(MaxVD)

\* the order of the steps of a tick
TickOrder ==
    {<<"idle", "msgs">>, <<"msgs", "batch">>, <<"batch", "msgs">>, <<"msgs", "sim">>,
     <<"sim", "deaths">>, <<"deaths", "respawn">>, <<"respawn", "drain">>,
     <<"drain", "evict">>, <<"evict", "sync">>, <<"sync", "cleanup">>,
     <<"cleanup", "idle">>}

Connections == DOMAIN clients
States == [e \in DOMAIN clients |-> clients[e].client_state]
Markers == [e \in Ents |-> <<ecs[e].dying, ecs[e].respawning>>]
Positions == [e \in Ents |-> ecs[e].pos]

C15_MarkersCleared ==
    /\ [](pc = "idle" =>
            \A e \in Ents :
               ~ecs[e].force_update /\ ~ecs[e].dying /\ ~ecs[e].respawning)
    /\ [][\A e \in Ents :
            /\ (~ecs[e].force_update /\ ecs'[e].force_update) =>
                  pc \in {"batch", "sim", "deaths", "respawn"}
            /\ (~ecs[e].dying /\ ecs'[e].dying) => pc = "sim"
            /\ (~ecs[e].respawning /\ ecs'[e].respawning) => pc = "batch"]_vars

\* a tick has ended in which a dead player was respawned: it carried
\* Respawning and ForceUpdate in that tick and is 100 above the spawn point
C15_Witness ==
    /\ pc = "idle"
    /\ \E e \in DOMAIN clients :
          /\ clients[e].client_state = "Character"
          /\ \E p \in ecs[e].pos : p.z = SpawnZ + RespawnLift


(* ------------------------------ replication ---------------------------- *)
SyncStep == pc = "sync" /\ pc' = "cleanup"

Has(ms, m) == \E i \in DOMAIN ms : ms[i] = m
\* the step puts the message on the postbox of the client of entity c
Pushed(c, m) == Has(sent'[c], m)

InGame(c) == c \in DOMAIN clients /\ clients[c].client_state \in {"Spectator", "Character", "Dead"}

PhysicsOf(e) == [type |-> "EntityPhysics", entity |-> e]
AnimationOf(e) == [type |-> "EntityAnimation", entity |-> e]

Forced(e) == ecs[e].live /\ ecs[e].force_update

\* entity e lies within the view distance of the connection of entity c,
\* measured on each axis from the position of c (the vertical comparison
\* |dz| < vd * ChunkSzZ is written with a division)
WithinView(c, e) ==
    \E p \in ecs[e].pos, q \in ecs[c].pos, pl \in ecs[c].player :
       \E vd \in pl.view_distance :
          /\ (IF p.x >= q.x THEN p.x - q.x ELSE q.x - p.x) < vd * ChunkSz
          /\ (IF p.y >= q.y THEN p.y - q.y ELSE q.y - p.y) < vd * ChunkSz
          /\ vd >= 1
          /\ (IF p.z >= q.z THEN p.z - q.z ELSE q.z - p.z) \div vd < ChunkSzZ

\* C16: the replication step pushes the physics of every entity that has a
\* position and carries ForceUpdate to every in-game connection.
C16_ForcedPushToAll ==
    [][SyncStep =>
         \A e \in Ents :
            (Forced(e) /\ ecs[e].pos # None) =>
               \A c \in Ents : InGame(c) => Pushed(c, PhysicsOf(e))]_vars

\* C17: the replication step pushes the physics of an entity without
\* ForceUpdate to a connection only if the connection does not control the
\* entity and the entity is within the view distance of the connection on
\* every axis (so not to a connection without position or view distance); a
\* horizontal offset of 5 chunks is not within a view distance of 2.
C17_UnforcedFilter ==
    [][SyncStep =>
         /\ \A e, c \in Ents :
               (~Forced(e) /\ Pushed(c, PhysicsOf(e))) =>
                  /\ c # e
                  /\ InGame(c)
                  /\ WithinView(c, e)
         /\ \A d \in (4 * ChunkSz + 1)..(6 * ChunkSz - 1) :
               ~axis_in_vd(d, 2, ChunkSz) /\ ~axis_in_vd(-d, 2, ChunkSz)]_vars

\* after a replication in which neither entity carried ForceUpdate (no
\* connection got the animation of its own entity), the second connection got
\* the physics of the first entity and the first connection did not get the
\* physics of the second
C17_Witness ==
    /\ pc = "cleanup"
    /\ InGame(1) /\ InGame(2)
    /\ ecs[1].anim /\ ecs[2].anim /\ ecs[1].pos # None /\ ecs[2].pos # None
    /\ ~Has(sent[1], AnimationOf(1)) /\ ~Has(sent[2], AnimationOf(2))
    /\ Has(sent[2], PhysicsOf(1))
    /\ ~Has(sent[1], PhysicsOf(2))

\* C18: the replication step pushes the animation of an entity only if its
\* changed flag is set or it carries ForceUpdate, and without ForceUpdate only
\* to connections that do not control the entity and have it within their
\* view distance.
C18_AnimationFilter ==
    [][SyncStep =>
         \A e, c \in Ents :
            Pushed(c, AnimationOf(e)) =>
               /\ ecs[e].changed \/ Forced(e)
               /\ Forced(e) \/ (c # e /\ WithinView(c, e))]_vars


(* -------------------------------- combat ------------------------------- *)
Marked(a) == cb[a].attacking # None
Applied(a) == \E m \in cb[a].attacking : m.applied
\* the marker of a is present and its scan has not run
Unapplied(a) == \E m \in cb[a].attacking : ~m.applied
Hp(b) == (CHOOSE st \in cb[b].stats : TRUE).hp
Alive(b) == \E st \in cb[b].stats : ~st.is_dead

\* a step of the combat system: a marker that was there is changed or removed
RunStep == \E a \in DOMAIN cb : Marked(a) /\ cb'[a].attacking # cb[a].attacking

\* b is what the step left of it, apart from its own marker
Untouched(b) ==
    /\ cb'[b].stats = cb[b].stats
    /\ cb'[b].vel = cb[b].vel
    /\ cb'[b].force_update = cb[b].force_update

\* b stands 5 units straight ahead of a
FiveAhead(a, b) ==
    /\ cb[b].pos[1] - cb[a].pos[1] = 5 * cb[a].ori[1]
    /\ cb[b].pos[2] - cb[a].pos[2] = 5 * cb[a].ori[2]
    /\ cb[b].pos[3] - cb[a].pos[3] = 5 * cb[a].ori[3]

\* C19: the applied flag of a marker starts false, is set by the first run of
\* the combat system that sees the marker and is never reset while the marker
\* is there; a run in which every marker is applied damages nobody, whatever
\* the number of such runs; the run that applies the only unapplied marker
\* takes exactly 10 health from a living target 5 units straight ahead.
C19_ScanOncePerSwing ==
    [][\A a \in DOMAIN cb :
         /\ (~Marked(a) /\ cb'[a].attacking # None) => cb'[a].attacking = {[time |-> 0, applied |-> FALSE]}
         /\ (Applied(a) /\ cb'[a].attacking # None) =>
               \E m \in cb'[a].attacking : m.applied
         /\ (RunStep /\ Unapplied(a)) =>
               \E m \in cb'[a].attacking : m.applied /\ m.time > 0
         /\ (RunStep /\ \A x \in DOMAIN cb : ~Unapplied(x)) =>
               \A b \in DOMAIN cb : Untouched(b)
         /\ (RunStep /\ Unapplied(a) /\ \A x \in DOMAIN cb \ {a} : ~Unapplied(x)) =>
               \A b \in DOMAIN cb :
                  (FiveAhead(a, b) /\ Alive(b) /\ cb[b].vel # None /\ Hp(b) >= 10) =>
                     /\ cb'[b].stats = {[hp |-> Hp(b) - 10, is_dead |-> FALSE]}
                     /\ cb'[b].force_update]_vars

\* the combat system has run three times on the swing of the first fighter,
\* and the second fighter, 5 units straight ahead of it, has lost 10 health
C19_Witness ==
    /\ cb # <<>>
    /\ cb[1].attacking = {[time |-> 7, applied |-> TRUE]}
    /\ cb[1].ori = <<1, 0, 0>> /\ cb[2].pos = <<5, 0, 0>>
    /\ cb[2].stats = {[hp |-> MaxHp - 10, is_dead |-> FALSE]}
    /\ cb[2].attacking = None

\* squared length of the vector from a to b
DistSq(a, b) ==
    (cb[b].pos[1] - cb[a].pos[1]) * (cb[b].pos[1] - cb[a].pos[1])
    + (cb[b].pos[2] - cb[a].pos[2]) * (cb[b].pos[2] - cb[a].pos[2])
    + (cb[b].pos[3] - cb[a].pos[3]) * (cb[b].pos[3] - cb[a].pos[3])

\* the angle between the facing of a and the vector from a to b is below 70
\* degrees: the vectors are not zero and the cosine is above 0.34202
InCone(a, b) ==
    LET dx == cb[b].pos[1] - cb[a].pos[1]
        dy == cb[b].pos[2] - cb[a].pos[2]
        dz == cb[b].pos[3] - cb[a].pos[3]
        o == cb[a].ori
        sc == o[1] * dx + o[2] * dy + o[3] * dz
        oo == o[1] * o[1] + o[2] * o[2] + o[3] * o[3]
    IN  /\ DistSq(a, b) > 0 /\ oo > 0 /\ sc > 0
        /\ 100000 * sc * sc > 11698 * oo * DistSq(a, b)

\* the scan of a, if it runs, damages b
Hits(a, b) ==
    /\ a # b
    /\ Alive(b) /\ cb[b].vel # None
    /\ DistSq(a, b) < 50
    /\ InCone(a, b)

NoHealthBelowZero(n) == IF n < 0 THEN 0 ELSE n

\* C20: a run of the combat system takes 10 health from an entity once for
\* every attacker whose scan runs in it and that the entity is different from,
\* not dead, at squared distance < 50 and at an angle < 70 degrees from the
\* facing of; it marks these entities for a forced update and leaves every
\* other entity as it is; an entity at squared distance 64 or more, a dead
\* entity and the attacker itself are not damaged.
C20_HitPredicate ==
    [][RunStep =>
         \A b \in DOMAIN cb :
            LET by == {a \in DOMAIN cb : Unapplied(a) /\ Hits(a, b)}
            IN  /\ by = {} => Untouched(b)
                /\ by # {} =>
                      /\ cb'[b].stats =
                            {[hp |-> NoHealthBelowZero(Hp(b) - 10 * Cardinality(by)),
                              is_dead |-> FALSE]}
                      /\ cb'[b].force_update
                /\ \A a \in DOMAIN cb :
                      (DistSq(a, b) >= 64 \/ a = b \/ ~Alive(b)) =>
                         (b \in Targets(cb) => ~is_hit(cb, a, b))]_vars

\* the first fighter swung once and its scan took 10 health from both the
\* fighter straight ahead and the one at 68 degrees; a fighter that faces the
\* first and never hit it has not swung
C20_Witness ==
    /\ cb # <<>>
    /\ \E m \in cb[1].attacking : m.applied
    /\ cb[1].ori = <<1, 0, 0>> /\ cb[2].pos = <<5, 0, 0>> /\ cb[3].pos = <<2, 5, 0>>
    /\ cb[1].stats = {[hp |-> MaxHp, is_dead |-> FALSE]}
    /\ cb[2].attacking = None
    /\ cb[2].stats = {[hp |-> MaxHp - 10, is_dead |-> FALSE]}
    /\ cb[3].stats = {[hp |-> MaxHp - 10, is_dead |-> FALSE]}


\* elapsed time of the marker of a, in tenths of a second
Elapsed(a) == (CHOOSE m \in cb[a].attacking : TRUE).time

\* C21: a run of the combat system keeps a marker it sees with an elapsed time
\* of at most 0.5 s, applied or not, and removes a marker it sees with an
\* elapsed time above 0.5 s; nothing else removes a marker; with every tick
\* longer than 0 a marker that is present is eventually absent.
C21_SwingEnds ==
    /\ [][\A a \in DOMAIN cb :
            Marked(a) =>
               /\ Elapsed(a) <= 5 => cb'[a].attacking # None
               /\ (RunStep /\ Elapsed(a) > 5) => cb'[a].attacking = None
               /\ ~RunStep => cb'[a].attacking = cb[a].attacking]_vars
    /\ \A a \in Swingers : (cb # <<>> /\ Marked(a)) ~> (cb # <<>> /\ ~Marked(a))

\* the swing of the first fighter hit the second and is over; the marker of
\* the second, applied, was seen at exactly 0.5 s and is still there
C21_Witness ==
    /\ cb # <<>>
    /\ cb[1].attacking = None
    /\ cb[2].force_update
    /\ cb[2].attacking = {[time |-> 8, applied |-> TRUE]}

(* ------------------------ rejected state requests ----------------------- *)
\* the step handled RequestState(req) from a session in state st
AskedFrom(st, req) ==
    MsgStep /\ cur'.msg = [type |-> "RequestState", state |-> req] /\ St = st

\* C23: RequestState(Registered) from Connected is answered with WrongMessage
\* and from Registered with Already; RequestState(Spectator) from Spectator is
\* answered with Already and from Connected with Impossible;
\* RequestState(Dead) is answered with Impossible from every state; none of
\* these changes the protocol state.
C23_RejectedRequests ==
    [][/\ AskedFrom("Connected", "Registered") => SameState /\ RejectedWith({"WrongMessage"})
       /\ AskedFrom("Registered", "Registered") => SameState /\ RejectedWith({"Already"})
       /\ AskedFrom("Spectator", "Spectator") => SameState /\ RejectedWith({"Already"})
       /\ AskedFrom("Connected", "Spectator") => SameState /\ RejectedWith({"Impossible"})
       /\ \A st \in ClientStates :
             AskedFrom(st, "Dead") => SameState /\ RejectedWith({"Impossible"})]_vars

(* ----------------------------- replication twice ----------------------- *)
\* what sync_clients sends when it is run once more on the state its run left
SecondRun == sync_clients(clients, ecs).sent

\* C24: when sync_clients has run, no entity has a ForceUpdate marker, and a
\* second run with nothing in between sends no physics and no animation update
\* of an entity to the connection of that entity, and no animation update at
\* all of an entity whose changed flag is clear.
C24_SecondSyncUnforced ==
    pc = "cleanup" =>
       \A e \in Ents :
          /\ ~ecs[e].force_update
          /\ ~Has(SecondRun[e], PhysicsOf(e))
          /\ ~Has(SecondRun[e], AnimationOf(e))
          /\ ~ecs[e].changed => \A c \in Ents : ~Has(SecondRun[c], AnimationOf(e))

\* the run pushed the physics of the first entity to its own connection and
\* the animation of the second, whose changed flag is clear, to the first; the
\* second run still has the physics of the second for the first
C24_Witness ==
    /\ pc = "cleanup"
    /\ Has(sent[1], PhysicsOf(1))
    /\ Has(sent[1], AnimationOf(2)) /\ ecs[2].anim /\ ~ecs[2].changed
    /\ Has(SecondRun[1], PhysicsOf(2))

(* ------------------------------ effect of a hit ------------------------ *)
\* the attackers whose scan runs in the step and hits b
HitBy(b) == {a \in DOMAIN cb : Unapplied(a) /\ Hits(a, b)}

\* the knockback b gets from a: 10 times the unit vector from a to b
PushFrom(a, b) ==
    [away |-> <<cb[b].pos[1] - cb[a].pos[1], cb[b].pos[2] - cb[a].pos[2],
                cb[b].pos[3] - cb[a].pos[3]>>,
     times |-> 10]

\* the last attacker of a set in the order of the join
Last(S) == CHOOSE a \in S : \A x \in S : x <= a

\* C25: an entity hit in a run of the combat system loses 10 health for each
\* swing that hits it (down to 0 at most), its last health change is -10 with
\* the cause Attack{by: Uid of the attacker}, its vertical velocity is 15, its
\* horizontal velocity is what it was plus, for each swing, 10 times the unit
\* vector from the attacker to it, and it has ForceUpdate; an entity no swing
\* hits keeps its stats, its last health change, its velocity and its
\* ForceUpdate status.
C25_HitEffect ==
    [][RunStep =>
         \A b \in DOMAIN cb :
            /\ HitBy(b) = {} =>
                  /\ Untouched(b)
                  /\ cb'[b].last_change = cb[b].last_change
            /\ HitBy(b) # {} =>
                  \E v \in cb[b].vel, w \in cb'[b].vel :
                     /\ cb'[b].stats =
                           {[hp |-> NoHealthBelowZero(Hp(b) - 10 * Cardinality(HitBy(b))),
                             is_dead |-> FALSE]}
                     /\ cb'[b].last_change =
                           {[amount |-> -10,
                             cause |-> [Attack |-> [by |-> cb[Last(HitBy(b))].uid]]]}
                     /\ w.linear = <<v.linear[1], v.linear[2], 15>>
                     /\ Len(w.added) = Len(v.added) + Cardinality(HitBy(b))
                     /\ SubSeq(w.added, 1, Len(v.added)) = v.added
                     /\ \A a \in HitBy(b) :
                           \E i \in Len(v.added) + 1 .. Len(w.added) :
                              w.added[i] = PushFrom(a, b)
                     /\ cb'[b].force_update]_vars

\* the swing of the first fighter hit the second, 5 units ahead, and left the
\* third, 8 units ahead, alone
C25_Witness ==
    /\ cb # <<>>
    /\ cb[2].pos = <<5, 0, 0>> /\ cb[3].pos = <<8, 0, 0>>
    /\ cb[2].stats = {[hp |-> MaxHp - 10, is_dead |-> FALSE]}
    /\ cb[2].last_change = {[amount |-> -10, cause |-> [Attack |-> [by |-> cb[1].uid]]]}
    /\ cb[2].vel = {[linear |-> <<0, 0, 15>>,
                     added |-> <<[away |-> <<5, 0, 0>>, times |-> 10]>>]}
    /\ cb[2].force_update
    /\ cb[3].stats = {[hp |-> MaxHp, is_dead |-> FALSE]}
    /\ cb[3].vel = {[linear |-> <<0, 0, 0>>, added |-> <<>>]}
    /\ ~cb[3].force_update /\ cb[3].last_change = None

(* -------------------------------- physics ------------------------------ *)
\* the step is a run of the physics system
PhysStep == ph'.ticks # ph.ticks
\* the run processes the entity
Living == ~ph.is_dead

\* C22: a run of the physics system on a living entity with a Rolling marker
\* adds dt to the elapsed time of the marker and removes the marker if and only
\* if the sum is above 0.55 s; a marker is created with elapsed time 0, and
\* between two runs nothing, asking for a roll included, changes or removes a
\* marker that is there.
C22_RollDuration ==
    [][/\ \A t \in ph.rolling :
             /\ (PhysStep /\ Living) =>
                   IF t + ph'.dt > 550 THEN ph'.rolling = {} ELSE ph'.rolling = {t + ph'.dt}
             /\ ~PhysStep => ph'.rolling = {t}
       /\ (ph.rolling = {} /\ ph'.rolling # {}) => ph'.rolling = {0}]_vars

\* a living entity whose roll has been through two runs of 0.2 s and is still
\* on, and for which a roll was asked again
C22_Witness ==
    /\ ph # <<>>
    /\ ph.ticks = 2 /\ ph.inputs = 1 /\ ~ph.is_dead /\ ph.move_dir = {}
    /\ ~ph.jumping /\ ~ph.gliding /\ ph.rolling = {400}
    /\ ph.vel.accel[1] # 0

\* C26: a run of the physics system leaves a dead entity as it is: position,
\* velocity, cached acceleration, orientation, OnGround, Jumping and the
\* Rolling marker with its elapsed time.
C26_DeadUnchanged ==
    [][(PhysStep /\ ph.is_dead) =>
          /\ ph'.pos = ph.pos
          /\ ph'.vel = ph.vel
          /\ ph'.ori = ph.ori
          /\ ph'.on_ground = ph.on_ground
          /\ ph'.jumping = ph.jumping
          /\ ph'.rolling = ph.rolling]_vars

\* the system has run on a dead entity that is inside the ground, faster than
\* the clamp allows, was asked to jump and is in a roll
C26_Witness ==
    /\ ph # <<>>
    /\ ph.ticks = 1 /\ ph.is_dead /\ ph.terrain = "flat"
    /\ ph.pos = <<0, 0, -6000>> /\ ph.vel.linear = <<0, 0, 150000>>
    /\ ph.jumping /\ ph.rolling = {0} /\ ~ph.on_ground /\ ph.move_dir # {}

\* the speed of the entity, whose velocity is in whole units, is below cap
SlowerThan(cap) ==
    LET v == ph.vel.linear
    IN  (v[1] \div 1000) * (v[1] \div 1000) + (v[2] \div 1000) * (v[2] \div 1000)
        + (v[3] \div 1000) * (v[3] \div 1000) < cap * cap

\* the mode table
ModeTable ==
    LET mode == <<ph.on_ground, ph.gliding, ph.rolling # {}>>
    IN  CASE mode = <<TRUE, FALSE, FALSE>> -> [accel |-> 70, cap |-> 120]
          [] mode = <<FALSE, TRUE, FALSE>> -> [accel |-> 15, cap |-> 45]
          [] mode = <<FALSE, FALSE, FALSE>> -> [accel |-> 10, cap |-> 100]
          [] mode = <<TRUE, FALSE, TRUE>> -> [accel |-> 160, cap |-> 550]
          [] OTHER -> [accel |-> 0, cap |-> 0]

\* what the drive adds to the velocity in a run of length dt (ms)
Drive(dt) ==
    IF ph.move_dir = {} \/ ~SlowerThan(ModeTable.cap) THEN <<0, 0, 0>>
    ELSE LET d == CHOOSE x \in ph.move_dir : TRUE
         IN  <<dt * d[1] * ModeTable.accel, dt * d[2] * ModeTable.accel, 0>>

\* C27: a run on a living entity is the run on the same entity without
\* MoveIntent and with the drive added to its velocity, where the drive is
\* dt * intent * accel with accel taken from the mode table, nothing when the
\* speed is at or above the cap of the mode or there is no MoveIntent, and
\* nothing on the vertical axis.
C27_ModeTable ==
    [][(PhysStep /\ Living) =>
          LET driven == [ph EXCEPT !.move_dir = {},
                                   !.vel.linear = [i \in 1..3 |-> @[i] + Drive(ph'.dt)[i]]]
          IN  ph' = [phys_step(driven, ph'.dt) EXCEPT
                        !.move_dir = ph.move_dir, !.dt = ph'.dt, !.ticks = ph'.ticks]]_vars

\* a roll on the ground at 549, driven by 160 for 0.2 s along x: the run
\* started from 549 + 32 and friction took the rest
C27_Witness ==
    /\ ph # <<>>
    /\ ph.ticks = 1 /\ ph.dt = 200 /\ ~ph.is_dead /\ ph.move_dir = {<<1, 0>>}
    /\ ph.rolling = {200} /\ ~ph.gliding
    /\ ph.vel.accel = resolve_forces(<<581000, 0, 0>>, TRUE)

\* C28: after a run on a living entity the vertical velocity of the entity
\* lies in [-100, 100].
C28_VerticalClamp ==
    [][(PhysStep /\ Living) =>
          /\ ph'.vel.linear[3] # NaN
          /\ ph'.vel.linear[3] <= 100000
          /\ ph'.vel.linear[3] >= -100000]_vars

\* a client reported a vertical velocity of 150 with a large acceleration,
\* where there is no terrain: the run left exactly 100
C28_Witness ==
    /\ ph # <<>>
    /\ ph.ticks >= 1 /\ ph.inputs = 0 /\ ~ph.is_dead /\ ph.terrain = "void"
    /\ ph.pos[3] > 0
    /\ ph.vel.linear[3] = 100000

\* the case of C29: airborne, living, no cached acceleration, no MoveIntent,
\* no Jumping, Gliding or Rolling
FreeFall ==
    /\ PhysStep /\ Living /\ ~ph.on_ground
    /\ ph.vel.accel = <<0, 0, 0>>
    /\ ph.move_dir = {} /\ ~ph.jumping /\ ~ph.gliding /\ ph.rolling = {}

\* the drag of the air on an entity whose velocity is in whole units, in
\* 1/100: 0.5 * 50 * 0.015 * speed^2
AirDrag ==
    LET v == ph.vel.linear
    IN  (75 * ((v[1] \div 1000) * (v[1] \div 1000) + (v[2] \div 1000) * (v[2] \div 1000)
               + (v[3] \div 1000) * (v[3] \div 1000))) \div 2

\* C29 as claimed: the step lowers the vertical velocity by gravity * dt,
\* and by what the drag takes.
C29_Original ==
    [][FreeFall =>
          ph'.vel.linear[3] =
             ph.vel.linear[3] - (3924 * ph'.dt) \div 100 - AirDrag * (ph'.dt \div 200)]_vars

\* C29 amended: the step lowers the vertical velocity by gravity * dt / 2,
\* and by what the drag takes, when the result lies within [-100, 100] and the
\* entity does not end inside solid terrain.
C29_GravityHalfStep ==
    [][FreeFall =>
          LET vz == ph.vel.linear[3] - (3924 * ph'.dt) \div 200 - AirDrag * (ph'.dt \div 200)
          IN  (vz >= -100000 /\ vz <= 100000
               /\ (ph'.terrain = "void" \/ ph'.pos[3] > 0)) =>
                 ph'.vel.linear[3] = vz]_vars

\* an entity at rest in the air fell for 0.2 s
C29_Witness ==
    /\ ph # <<>>
    /\ ph.ticks = 1 /\ ph.dt = 200 /\ ~ph.is_dead
    /\ ph.vel = [linear |-> <<0, 0, -3924>>, accel |-> <<0, 0, -3924>>]
    /\ ph.pos = <<0, 0, 100000>> /\ ph.rolling = {} /\ ph.move_dir = {}

\* C30: the acceleration stored with the velocity is the one the last run
\* computed: no step between two runs changes it.
C30_AccelCarried ==
    [][~PhysStep => ph'.vel.accel = ph.vel.accel]_vars

\* where the Verlet step of a run of length dt puts an entity that is not
\* driven, does not jump and does not glide
Moved(dt) ==
    [k \in 1..3 |->
        fadd(ph.pos[k],
             vel_times(fadd(ph.vel.linear[k], accel_times(ph.vel.accel[k], dt \div 2)), dt))]

\* the cell of the entity is solid after the step
StillInside ==
    /\ ph'.terrain = "flat"
    /\ IF ph'.pos[3] = NaN THEN ph'.nan_as_i32 < 0 ELSE ph'.pos[3] < 0

\* C31: in a run of length dt on a living entity the collision loop makes at
\* most 6000 * dt iterations; it stops before that only when the entity's cell
\* is not solid; when it made one iteration or more the vertical velocity is 0;
\* it makes none where the terrain has no sample; and it leaves the entity
\* where the Verlet step put it, with 0.0025 added to the height for each
\* iteration.
C31_CollisionLoop ==
    [][(PhysStep /\ Living) =>
          /\ ph'.i >= 0 /\ ph'.i <= 6 * ph'.dt
          /\ ph'.i < 6 * ph'.dt => ~StillInside
          /\ ph'.i > 0 => ph'.vel.linear[3] = 0
          /\ ph.terrain = "void" => ph'.i = 0
          /\ (ph.move_dir = {} /\ ~ph.jumping /\ ~ph.gliding) =>
                ph'.pos = <<Moved(ph'.dt)[1], Moved(ph'.dt)[2],
                            fadd(Moved(ph'.dt)[3], 50 * ph'.i)>>]_vars

\* an entity 5 units deep in the ground after a run of 0.2 s: 1200 iterations
\* lifted it by 3 units and it is still in the ground
C31_Witness ==
    /\ ph # <<>>
    /\ ph.ticks = 1 /\ ph.dt = 200 /\ ~ph.is_dead /\ ph.terrain = "flat"
    /\ ph.i = 1200 /\ ph.pos = <<0, 0, -40000>> /\ ph.vel.linear[3] = 0
    /\ ph.move_dir = {}

(* ----------------------- sessions and their entities ------------------- *)
\* entities whose session was removed in the pass that now ends
RemovedInPass == {disconnected_clients[i] : i \in DOMAIN disconnected_clients}

\* C32: at the end of every message-processing pass every session of the
\* client table controls a live entity, every session removed in the pass
\* is gone from the table and its entity is deleted, and every live entity
\* is the key of one session of the table.
C32_SessionsAndEntities ==
    [][AfterMessagesStep =>
          /\ \A e \in DOMAIN clients' : e \in Ents /\ ecs'[e].live
          /\ \A e \in RemovedInPass : e \notin DOMAIN clients' /\ ecs'[e] = NoEntity
          /\ \A e \in Ents : ecs'[e].live => e \in DOMAIN clients']_vars

\* a pass has ended in which the only session was removed
C32_Witness ==
    /\ pc = "sim"
    /\ next_ent = 2
    /\ clients = <<>>
    /\ ecs[1] = NoEntity

(* ------------------------------- deaths -------------------------------- *)
DeathSyncStep == pc = "deaths" /\ pc' = "respawn"

\* the session of entity e is in Dead after the step and was not before it
EntersDead(e) ==
    /\ e \in DOMAIN clients'
    /\ clients'[e].client_state = "Dead"
    /\ e \in DOMAIN clients => clients[e].client_state # "Dead"

\* C33: a session enters Dead in no step but the death sync of a tick in
\* which its entity carries Dying, and there its entity gets Vel and
\* ForceUpdate written; every session whose entity carries Dying is in Dead
\* after that step, and a Dying entity without a session is deleted by it.
C33_DeadOnlyByDeathSync ==
    [][/\ \A e \in Ents : EntersDead(e) =>
              /\ DeathSyncStep
              /\ e \in DOMAIN clients
              /\ ecs[e].live /\ ecs[e].dying
              /\ ecs'[e].live /\ ecs'[e].vel /\ ecs'[e].force_update
       /\ DeathSyncStep =>
              \A e \in Ents : (ecs[e].live /\ ecs[e].dying) =>
                  IF e \in DOMAIN clients
                  THEN e \in DOMAIN clients' /\ clients'[e].client_state = "Dead"
                  ELSE ecs'[e] = NoEntity]_vars

\* after a death sync the session is in Dead with its entity kept, and the
\* non-player character that died in the same tick is deleted
C33_Witness ==
    /\ pc = "respawn"
    /\ next_ent = 3
    /\ 1 \in DOMAIN clients /\ clients[1].client_state = "Dead"
    /\ ecs[1].live /\ ecs[1].dying /\ ecs[1].vel /\ ecs[1].force_update
    /\ ecs[2] = NoEntity

(* ------------------------------ respawns ------------------------------- *)
RespawnStep == pc = "respawn" /\ pc' = "drain"

\* the session of entity e asked for a respawn in this tick and is still
\* connected when the respawn step runs
AwaitsRespawn(e) == e \in DOMAIN clients /\ ecs[e].live /\ ecs[e].respawning

\* the respawn step as the first half of C34 states it
RespawnsDead ==
    RespawnStep =>
        \A e \in Ents : (AwaitsRespawn(e) /\ clients[e].client_state = "Dead") =>
            /\ clients'[e].client_state = "Character"
            /\ ecs'[e].stats = Some(DefaultStats)
            /\ ecs'[e].vel /\ ecs'[e].force_update

\* the respawn step as the second half of C34 states it
RespawnsOnlyDead ==
    RespawnStep =>
        \A e \in DOMAIN clients :
            clients'[e].client_state # clients[e].client_state =>
                clients[e].client_state = "Dead"

\* C34: the respawn step moves a session that sent Respawn while in Dead to
\* Character, with default Stats, Vel and ForceUpdate written, and changes
\* the state of no session that is not in Dead when the step runs.
C34_RespawnFromDead == [][RespawnsDead /\ RespawnsOnlyDead]_vars

(* --------------------- chunk map and pending set ----------------------- *)
\* the closure handles a TerrainChunkRequest of an in-game session for a key
\* the chunk map holds
RequestOfPresent ==
    /\ MsgStep
    /\ cur'.msg.type = "TerrainChunkRequest"
    /\ cur'.msg.key \in terrain
    /\ St \in {"Spectator", "Character"}

\* C35: when a tick ends no key is both in the chunk map and in the pending
\* set; a TerrainChunkRequest for a key of the map is answered with the
\* chunk and queues nothing for generation; the drain step that inserts a
\* chunk removes its key from the pending set.
C35_MapAndPendingDisjoint ==
    [][/\ pc' = "idle" => terrain' \cap pending_chunks' = {}
       /\ RequestOfPresent =>
              /\ Answer = <<TerrainChunkUpdateMsg(cur'.msg.key)>>
              /\ UNCHANGED <<requested_chunks, pending_chunks, jobs>>
       /\ AfterMessagesStep =>
              \A key \in Keys : key \in terrain => UNCHANGED <<jobs[key], pending_chunks \cap {key}>>
       /\ DrainStep =>
              \A key \in Keys :
                  key \in terrain' \ terrain =>
                      key \in pending_chunks /\ key \notin pending_chunks']_vars

\* a tick has ended with one chunk drained into the map, none of its jobs
\* left, and another key still pending
C35_Witness ==
    /\ pc = "idle"
    /\ terrain = {<<512, 512>>}
    /\ pending_chunks = {<<514, 510>>}
    /\ jobs[<<512, 512>>] = 0

(* --------------------------- chunks are served ------------------------- *)
\* the key is served: its chunk is in the map and the key is no longer pending
Served(key) == key \in terrain /\ key \notin pending_chunks

\* the pass dispatches a job
Dispatches == pending_chunks' \ pending_chunks # {}

\* C36: while ticks keep running and workers finish their jobs, every key of
\* the pending set is eventually drained: inserted into the chunk map and
\* removed from the pending set; and once no pass dispatches a job any more,
\* the pending set becomes empty and stays empty.
C36_PendingServed ==
    /\ \A key \in Keys : (key \in pending_chunks) ~> Served(key)
    /\ <>[][~Dispatches]_vars => <>[](pending_chunks = {})

\* the drain step has just served a key while the other one is pending
C36_Witness ==
    /\ pc = "evict"
    /\ drained = Some(<<512, 512>>)
    /\ Served(<<512, 512>>)
    /\ pending_chunks = {<<514, 510>>}

(* -------------------- leaving in the middle of a batch ----------------- *)
\* the message the closure has just handled ends the session
Leaves(m) == m.type = "Disconnect" \/ (m.type = "RequestState" /\ m.state = "Connected")

\* the chat lines of the pass that sessions wrote
Spoken == {i \in DOMAIN new_chat_msgs :
              IsSome(new_chat_msgs[i].from) /\ new_chat_msgs[i].kind = "text"}

\* C37: a Disconnect or RequestState(Connected) marks the session for removal
\* and the mark stays; the messages after it in the batch are handled like
\* any other: a Chat is queued for the broadcast, a TerrainChunkRequest for
\* an absent key is queued for generation; at the end of the batch the
\* session is removed, and at the end of the pass its entity is deleted,
\* the queued chat lines have gone to every session past Connected and
\* the queued keys are pending.
C37_LeaveMidBatch ==
    [][/\ (MsgStep /\ Leaves(cur'.msg)) => cur'.disconnect
       /\ (MsgStep /\ cur.disconnect) =>
              /\ cur'.disconnect
              /\ (cur'.msg.type = "Chat" /\ cur'.msg.kind = "text" /\ St # "Connected") =>
                     new_chat_msgs' = Append(new_chat_msgs,
                                             [from |-> Some(cur.ent), kind |-> "text"])
              /\ (/\ cur'.msg.type = "TerrainChunkRequest"
                  /\ St \in {"Spectator", "Character"}
                  /\ cur'.msg.key \notin terrain) =>
                     requested_chunks' = Append(requested_chunks, cur'.msg.key)
       /\ (EndBatchStep /\ cur.disconnect) =>
              /\ Removed
              /\ \E i \in DOMAIN disconnected_clients' : disconnected_clients'[i] = cur.ent
       /\ AfterMessagesStep =>
              /\ \A e \in RemovedInPass : e \notin DOMAIN clients' /\ ecs'[e] = NoEntity
              /\ \A i \in Spoken : \A c \in DOMAIN clients :
                     clients[c].client_state # "Connected" =>
                        \E k \in DOMAIN sent'[c] :
                            sent'[c][k] = ChatMsg(new_chat_msgs[i].from, "text")
              /\ \A i \in DOMAIN requested_chunks :
                     requested_chunks[i] \in pending_chunks']_vars

\* the closure has handled a chunk request of a session it had already
\* marked for removal, and the key is queued for generation
C37_Witness ==
    /\ pc = "batch"
    /\ cur.n = 2
    /\ cur.disconnect
    /\ cur.msg.type = "TerrainChunkRequest"
    /\ requested_chunks # <<>>
    /\ requested_chunks[Len(requested_chunks)] = cur.msg.key

(* --------------------------- one swing at a time ----------------------- *)
\* elapsed time of a marker
TimeOf(m) == (CHOOSE x \in m : TRUE).time

\* C38: no step takes a marker that is present back: its elapsed time does
\* not fall and its applied flag is not reset, so an Attack of an entity that
\* has a marker changes neither; a marker appears only where there was none,
\* with elapsed time 0 and the flag unset; and a marker whose scan is still
\* to run is either that new marker or one the step did not touch, so two
\* scans of one attacker have the removal of the first marker between them.
C38_OneSwingAtATime ==
    [][\A a \in DOMAIN cb :
          /\ (Marked(a) /\ cb'[a].attacking # None) =>
                 /\ TimeOf(cb'[a].attacking) >= TimeOf(cb[a].attacking)
                 /\ Applied(a) => \A m \in cb'[a].attacking : m.applied
          /\ (~Marked(a) /\ cb'[a].attacking # None) =>
                 cb'[a].attacking = Some(AttackingStart)
          /\ (Marked(a) /\ \E m \in cb'[a].attacking : ~m.applied) =>
                 cb'[a].attacking = cb[a].attacking]_vars

\* the first fighter is in its second swing: both scans have hit the second
\* fighter, which has lost 10 health twice
C38_Witness ==
    /\ cb # <<>>
    /\ Applied(1)
    /\ cb[2].attacking = None
    /\ cb[2].stats = {[hp |-> MaxHp - 20, is_dead |-> FALSE]}
    /\ pushes(cb, 2) = 2

(* ---------------------- sessions in game have a body ------------------- *)
HasBody(e) ==
    /\ ecs[e].live
    /\ IsSome(ecs[e].stats)
    /\ IsSome(ecs[e].pos)
    /\ ecs[e].vel
    /\ ecs[e].ori

\* C39: when a tick has ended, the entity of every session that is in
\* Character or in Dead is live and has Stats, Pos, Vel and Ori.
C39_InGameHasBody ==
    pc = "idle" =>
        \A e \in DOMAIN clients :
            clients[e].client_state \in {"Character", "Dead"} => HasBody(e)

\* a tick has ended with the session in Dead, its entity dead and complete
C39_Witness ==
    /\ pc = "idle"
    /\ time > 0
    /\ 1 \in DOMAIN clients
    /\ clients[1].client_state = "Dead"
    /\ HasBody(1)
    /\ Unwrap(ecs[1].stats).is_dead

(* ------------------------------ LodIndex ------------------------------- *)
\* C40: the position read back from the LodIndex of a whole position of the
\* documented range is that position.
C40_RoundTrip ==
    (lod # <<>> /\ lod.out # None) =>
        lod.out = Some([panicked |-> FALSE, value |-> lod.pos])

====
